---- MODULE Spec2Model ----
(***************************************************************************)
(* PediaFlow physiological engine (src/backend/core_physics.py): the       *)
(* parameter calibrator, the T=0 state initializer, the minute step        *)
(* simulate_single_step and the driver run_simulation.                     *)
(*                                                                         *)
(* Numbers.  The code computes in IEEE doubles; the model computes in      *)
(* decimal fixed point.  A real x is held as the integer x * SC, every     *)
(* product and quotient is the exact one truncated to 1/SC.  Fields the    *)
(* code holds in litres (v_blood_current_l, ...) are held in millilitres   *)
(* at the same scale, so one unit of a volume is 1e-4 ml; the conversions  *)
(* `* 1000` and `/ 1000` of the code between litres and millilitres are    *)
(* therefore exact in the model.                                           *)
(***************************************************************************)
EXTENDS Integers, Sequences, FiniteSets, TLC

SC == 10 ^ 4

Abs(x) == IF x < 0 THEN -x ELSE x
Sgn(x) == IF x < 0 THEN -1 ELSE 1
Max(a, b) == IF a >= b THEN a ELSE b
Min(a, b) == IF a <= b THEN a ELSE b
Clamp(lo, x, hi) == Max(lo, Min(x, hi))

\* a * b / (SC * k) for a, b >= 0 and k a divisor of SC, exact, truncated.
MulDivN(a, b, k) ==
    LET a1 == a \div SC
        a0 == a % SC
        b1 == b \div SC
        b0 == b % SC
    IN  a1 * b1 * (SC \div k) + (a1 * b0 + a0 * b1 + (a0 * b0) \div SC) \div k

\* Product of two fixed-point numbers.
Mul(a, b) == Sgn(a) * Sgn(b) * MulDivN(Abs(a), Abs(b), 1)

\* Product of two fixed-point numbers divided by the integer k (k divides SC).
MulDiv(a, b, k) == Sgn(a) * Sgn(b) * MulDivN(Abs(a), Abs(b), k)

RECURSIVE LongDiv(_, _, _, _)
LongDiv(r, b, n, acc) ==
    IF n = 0 THEN acc
    ELSE LongDiv((r * 10) % b, b, n - 1, acc * 10 + (r * 10) \div b)

\* a / b for a >= 0, b > 0: long division, four decimal digits.
DivN(a, b) == LongDiv(a % b, b, 4, a \div b)

\* Quotient of two fixed-point numbers (b # 0).
Div(a, b) == Sgn(a) * Sgn(b) * DivN(Abs(a), Abs(b))

\* a / (b / 10^k): the quotient by a divisor the code first scales down by
\* 10^k (millilitres to litres k = 3, to decilitres k = 2), without losing
\* the digits of the divisor.
DivScaled(a, b, k) == Sgn(a) * Sgn(b) * LongDiv(Abs(a) % Abs(b), Abs(b), 4 + k, Abs(a) \div Abs(b))

\* Division that saturates at cap instead of leaving the number range; used
\* where the code clamps the quotient below cap right afterwards.
DivSat(a, b, cap) ==
    IF Abs(a) \div Abs(b) >= cap \div SC THEN Sgn(a) * Sgn(b) * cap ELSE Div(a, b)

\* The integer n and the rational n / m as fixed-point numbers.
Num(n) == n * SC
Frac(n, m) == (n * SC) \div m

RECURSIVE SqrtIter(_, _)
SqrtIter(x, r) ==
    LET r2 == (r + DivN(x, r)) \div 2
    IN  IF r2 >= r THEN r ELSE SqrtIter(x, r2)

\* math.sqrt / ** 0.5 (Newton's iteration from above).
Sqrt(x) == IF x <= 0 THEN 0 ELSE SqrtIter(x, Max(x, SC))

\* x ** 0.3 as the product of the iterated square roots x^(1/4), x^(1/32),
\* x^(1/64), ... named by the binary digits of 0.3 = 0.01001100110011...b
PowBits == {2, 5, 6, 9, 10, 13, 14}

RECURSIVE PowFrac(_, _, _)
PowFrac(s, k, acc) ==
    IF k > 14 THEN acc
    ELSE LET s2 == Sqrt(s)
         IN  PowFrac(s2, k + 1, IF k \in PowBits THEN Mul(acc, s2) ELSE acc)

Pow03(x) == PowFrac(x, 1, SC)

\* x ** 2.5 = x * x * sqrt(x)
Pow25(x) == Mul(Mul(x, x), Sqrt(x))

RECURSIVE ExpSeries(_, _, _, _)
ExpSeries(t, n, term, acc) ==
    IF term = 0 THEN acc
    ELSE LET nxt == Mul(term, t) \div n
         IN  ExpSeries(t, n + 1, nxt, acc + term)

\* math.exp: the power series for t >= 0, its reciprocal for t < 0.
Exp(t) == IF t >= 0 THEN ExpSeries(t, 1, SC, 0) ELSE Div(SC, ExpSeries(-t, 1, SC, 0))

(***************************************************************************)
(* Inputs: PatientInput (models.py) and the fluid table (constants.py).    *)
(* Floats are fixed-point numbers, the int fields (age, pressures, rates,  *)
(* seconds, days, platelets) are plain integers.                           *)
(***************************************************************************)
None == -1

\* Python truthiness of an Optional number: None and 0 are both false.
Truthy(x) == x # None /\ x # 0

FluidType == {"RL", "NS", "D5_NS", "RESOMAL", "PRBC", "COLLOID_ALBUMIN",
              "ORS_SOLUTION", "HALF_NS", "D5_HALF"}

FluidProps(na, glu, onc, dist, k, colloid) ==
    [sodium_meq_l |-> na, glucose_g_l |-> glu, oncotic_pressure_mmhg |-> onc,
     vol_distribution_intravascular |-> dist, potassium_meq_l |-> k,
     is_colloid |-> colloid]

SPECS ==
    [f \in FluidType |->
       CASE f = "RL"      -> FluidProps(Num(130), 0, 0, Frac(25, 100), Num(4), FALSE)
         [] f = "NS"      -> FluidProps(Num(154), 0, 0, Frac(25, 100), 0, FALSE)
         [] f = "RESOMAL" -> FluidProps(Num(45), Num(25), 0, Frac(20, 100), Num(40), FALSE)
         [] f = "D5_NS"   -> FluidProps(Num(154), Num(50), 0, Frac(20, 100), 0, FALSE)
         [] f = "COLLOID_ALBUMIN" -> FluidProps(Num(145), 0, Num(20), Num(1), 0, TRUE)
         [] f = "PRBC"    -> FluidProps(Num(140), 0, Num(25), Num(1), Num(4), TRUE)
         [] f = "ORS_SOLUTION" -> FluidProps(Num(75), Frac(135, 10), 0, Frac(20, 100), Num(20), FALSE)
         [] f = "HALF_NS" -> FluidProps(Num(77), 0, 0, Frac(15, 100), 0, FALSE)
         [] f = "D5_HALF" -> FluidProps(Num(77), Num(50), 0, Frac(15, 100), 0, FALSE)]

\* FLUID_LIBRARY.get: SPECS.get(fluid_enum, SPECS[RL])
FLUID_LIBRARY_get(fluid_enum) ==
    IF fluid_enum \in DOMAIN SPECS THEN SPECS[fluid_enum] ELSE SPECS["RL"]

(***************************************************************************)
(* Compartment & hemodynamics calculator.                                  *)
(***************************************************************************)
_calculate_bsa(weight_kg, height_cm) ==
    IF weight_kg <= 0 THEN Frac(1, 10)
    ELSE IF height_cm # None /\ height_cm > 0
         THEN Sqrt(Mul(weight_kg, height_cm) \div 3600)
         ELSE Div(4 * weight_kg + Num(7), weight_kg + Num(90))

\* Volumes in ml (the code's litres * 1000).
_calculate_compartment_volumes(input) ==
    LET base_tbw == IF input.age_months < 1 THEN Frac(80, 100)
                    ELSE IF input.age_months < 12 THEN Frac(70, 100)
                    ELSE Frac(60, 100)
        base_ecf == IF input.age_months < 1 THEN Frac(45, 100)
                    ELSE IF input.age_months < 12 THEN Frac(30, 100)
                    ELSE Frac(25, 100)
        sam      == input.muac_cm < Frac(115, 10)
        tbw_ratio == IF sam THEN base_tbw + Frac(5, 100) ELSE base_tbw
        ecf_ratio == IF sam THEN base_ecf + Frac(5, 100) ELSE base_ecf
        icf_ratio == Max(tbw_ratio - ecf_ratio, Frac(3, 10))
        ecf_total == Mul(input.weight_kg * 1000, ecf_ratio)
        plasma_fraction == Frac(25, 100)
    IN  [tbw_fraction    |-> tbw_ratio,
         v_blood         |-> Mul(ecf_total, plasma_fraction),
         v_interstitial  |-> Mul(ecf_total, SC - plasma_fraction),
         v_intracellular |-> Mul(input.weight_kg * 1000, icf_ratio),
         icf_ratio       |-> icf_ratio]

\* The fluid-deficit fraction of the diagnosis (computed twice in the code).
DeficitFactor(input) ==
    IF input.diagnosis = "SEVERE_DEHYDRATION"
    THEN (IF input.capillary_refill_sec > 4 THEN Frac(15, 100) ELSE Frac(10, 100))
    ELSE IF input.diagnosis = "SAM_DEHYDRATION" THEN Frac(8, 100)
    ELSE 0

\* The SAM test of the hemodynamic calibration.
HemodynamicsIsSam(input) ==
    input.diagnosis = "SAM_DEHYDRATION" \/ input.muac_cm < Frac(115, 10)

_calculate_hemodynamics(input) ==
    LET is_sam == HemodynamicsIsSam(input)
        c1 == IF is_sam THEN Frac(9, 10) ELSE SC
        c2 == IF input.diagnosis = "SEPTIC_SHOCK" THEN Mul(c1, Frac(7, 10)) ELSE c1
        hct == input.hematocrit_pct
        raw_visc == IF hct < Num(20) THEN Frac(15, 10) + Mul(Frac(5, 100), hct)
                    ELSE Pow25(hct \div 45)
        viscosity == Max(Frac(8, 10), Min(raw_visc, Num(3)))
        age_svr == IF input.age_months < 1 THEN Num(1800)
                   ELSE IF input.age_months < 12 THEN Num(1400)
                   ELSE Num(1000)
        svr_scaling_factor == Sqrt(Div(Num(10), input.weight_kg))
        base_svr == Mul(age_svr, svr_scaling_factor)
        temp_factor == IF input.temp_celsius < Num(36) THEN Frac(15, 10)
                       ELSE IF input.temp_celsius > Frac(385, 10) THEN Frac(8, 10)
                       ELSE SC
        svr == Mul(Mul(base_svr, viscosity), temp_factor)
        deficit_factor == DeficitFactor(input)
        boost0 == IF deficit_factor >= Frac(10, 100) THEN Frac(14, 10) ELSE Frac(12, 10)
        compensation_boost == IF is_sam THEN Frac(105, 100) ELSE boost0
        contractility == IF deficit_factor > 0 THEN Mul(c2, compensation_boost) ELSE c2
    IN  [contractility |-> contractility, svr |-> svr, viscosity |-> viscosity]

_calculate_safe_rr_limit(age_months, baseline_rr) ==
    LET severe_limit == IF age_months < 2 THEN 60
                        ELSE IF age_months < 12 THEN 50
                        ELSE IF age_months < 60 THEN 40
                        ELSE 30
    IN  IF baseline_rr > severe_limit THEN (baseline_rr * 115) \div 100
        ELSE severe_limit + 10

_calculate_renal_function(age_months, time_since_urine) ==
    LET maturity == IF age_months >= 24 THEN SC
                    ELSE Min(Frac(3, 10) + Frac(29, 1000) * age_months, SC)
    IN  IF time_since_urine > Num(6) THEN Mul(maturity, Frac(1, 10))
        ELSE IF time_since_urine > Num(4) THEN Mul(maturity, Frac(5, 10))
        ELSE maturity

_calculate_insensible_loss(input, bsa) ==
    LET d0 == 400 * bsa
        d1 == IF input.temp_celsius > Num(38)
              THEN Mul(d0, SC + Mul(Frac(12, 100), input.temp_celsius - Num(38)))
              ELSE d0
        d2 == IF input.respiratory_rate_bpm > 50 THEN Mul(d1, Frac(110, 100)) ELSE d1
    IN  d2 \div 1440

(***************************************************************************)
(* Parameter calibrator.                                                   *)
(***************************************************************************)
\* Observed MAP: DBP + (SBP - DBP) / 3, or 0.65 * SBP without a diastolic.
StartMap(input) ==
    IF input.diastolic_bp # None
    THEN Num(input.diastolic_bp) + Num(input.systolic_bp - input.diastolic_bp) \div 3
    ELSE (Num(input.systolic_bp) * 65) \div 100

\* The afterload factor 1 / max(0.1, 1 + (svr/1000 - 1) * sens), floored.
AfterloadFactor(svr, sens, floor) ==
    LET normalized_svr == svr \div 1000
        denom == SC + Mul(normalized_svr - SC, sens)
        raw_factor == Div(SC, Max(Frac(1, 10), denom))
    IN  Max(floor, raw_factor)

\* Quotients the code clamps to at most 20000 afterwards saturate here.
SvrCap == 200000 * SC

\* One pass of the SVR solver's loop body.
SolverStep(guess, base_co, sens, start_map, assumed_cvp) ==
    LET afterload_factor == AfterloadFactor(guess, sens, Frac(3, 10))
        effective_co == Mul(base_co, afterload_factor)
        safe_co == Max(Frac(1, 100), effective_co)
        required_svr == DivSat((start_map - assumed_cvp) * 80, safe_co, SvrCap)
    IN  guess \div 2 + required_svr \div 2

RECURSIVE SolveSvr(_, _, _, _, _, _)
SolveSvr(n, guess, base_co, sens, start_map, assumed_cvp) ==
    IF n = 0 THEN guess
    ELSE SolveSvr(n - 1, SolverStep(guess, base_co, sens, start_map, assumed_cvp),
                  base_co, sens, start_map, assumed_cvp)

\* The Frank-Starling curve of the calibrator.
CalibratorPreloadEfficiency(preload_ratio) ==
    IF preload_ratio <= SC THEN preload_ratio
    ELSE IF preload_ratio <= Frac(12, 10) THEN SC
    ELSE Max(Frac(4, 10), SC - Mul(preload_ratio - Frac(12, 10), Frac(15, 10)))

\* The respiratory-distress / hepatomegaly override of the assumed CVP.
HasWetLungs(input) ==
    LET rr_limit == IF input.age_months < 2 THEN 60
                    ELSE IF input.age_months < 12 THEN 50 ELSE 40
        is_hypoxic == IF input.diagnosis = "SEPTIC_SHOCK"
                      THEN input.sp_o2_percent < 85
                      ELSE input.sp_o2_percent < 90
        is_extreme_tachypnea == input.respiratory_rate_bpm * 10 > rr_limit * 14
        dry_lung_diagnoses == {"SEVERE_DEHYDRATION", "SAM_DEHYDRATION",
                               "SEPTIC_SHOCK", "DENGUE_SHOCK"}
    IN  is_hypoxic \/ (is_extreme_tachypnea /\ input.diagnosis \notin dry_lung_diagnoses)

initialize_physics_engine(input) ==
    LET bsa == _calculate_bsa(input.weight_kg, input.height_cm)
        insensible_rate == _calculate_insensible_loss(input, bsa)
        vols == _calculate_compartment_volumes(input)
        hemo == _calculate_hemodynamics(input)
        renal_factor == _calculate_renal_function(input.age_months,
                                                  input.time_since_last_urine_hours)
        dengue == input.diagnosis = "DENGUE_SHOCK"
        septic == input.diagnosis = "SEPTIC_SHOCK"
        sigma == IF septic THEN Frac(35, 100)
                 ELSE IF dengue /\ input.illness_day <= 3 THEN Frac(9, 10)
                 ELSE IF dengue /\ input.illness_day <= 6 THEN Frac(3, 10)
                 ELSE IF dengue THEN Frac(7, 10)
                 ELSE Frac(9, 10)
        k_f_base == IF septic THEN Frac(35, 1000)
                    ELSE IF dengue /\ input.illness_day > 3 /\ input.illness_day <= 6
                         THEN Frac(25, 1000)
                    ELSE Frac(1, 100)
        est0 == IF input.muac_cm < Frac(115, 10) THEN Frac(25, 10)
                ELSE IF input.muac_cm > Frac(125, 10) THEN Num(4)
                ELSE Frac(25, 10) + Mul(input.muac_cm - Frac(115, 10), Frac(15, 10))
        est1 == IF septic THEN Min(Mul(est0, Frac(85, 100)), Frac(35, 10)) ELSE est0
        albumin == IF input.plasma_albumin_g_dl = None THEN est1
                   ELSE input.plasma_albumin_g_dl
        albumin_uncertainty == IF input.plasma_albumin_g_dl = None THEN Frac(8, 10) ELSE 0
        pi_plasma == Mul(Frac(21, 10), albumin)
                     + Mul(Frac(16, 100), Mul(albumin, albumin))
                     + Mul(Frac(9, 1000), Mul(Mul(albumin, albumin), albumin))
        burn0 == IF input.age_months > 12 THEN Frac(12, 100) ELSE Frac(15, 100)
        glucose_burn == IF septic THEN Mul(burn0, Frac(15, 10)) ELSE burn0
        contractility == IF Truthy(input.platelet_count) /\ input.platelet_count < 20000
                         THEN Mul(hemo.contractility, Frac(5, 10))
                         ELSE hemo.contractility
        is_sam == input.muac_cm < Frac(115, 10)
        tissue_compliance == IF is_sam THEN Frac(3, 10) ELSE SC
        interstitial_compliance == IF septic /\ input.sp_o2_percent < 90 THEN Num(40)
                                   ELSE IF is_sam THEN Num(30) ELSE Num(100)
        capillary_recruitment_base == IF is_sam THEN Frac(7, 10) ELSE SC
        sodium_bias == IF is_sam THEN Frac(12, 10) ELSE SC
        target_map == IF input.age_months < 12 THEN Num(55) ELSE Num(65)
        base_max_hr == IF input.age_months > 12 THEN 160 ELSE 180
        fever_buffer == IF input.temp_celsius > Frac(375, 10)
                        THEN ((input.temp_celsius - Frac(375, 10)) * 15) \div SC
                        ELSE 0
        max_hr == Min(base_max_hr + fever_buffer, 220)
        stop_rr == _calculate_safe_rr_limit(input.age_months, input.respiratory_rate_bpm)
        afterload_sens == IF input.muac_cm < Frac(115, 10) \/ input.temp_celsius < Num(36)
                          THEN Frac(5, 10) ELSE Frac(2, 10)
        base_pc == IF input.capillary_refill_sec > 4 THEN Num(15)
                   ELSE IF input.capillary_refill_sec > 2 THEN Num(20)
                   ELSE Num(25)
        opt0 == Mul(vols.v_blood, Frac(115, 100))
        opt_preload == IF input.baseline_hepatomegaly THEN Mul(opt0, Frac(85, 100)) ELSE opt0
        deficit_factor == DeficitFactor(input)
        vol_loss_ml == Mul(input.weight_kg * 1000, deficit_factor)
        current_v_blood_est == vols.v_blood - Mul(vol_loss_ml, Frac(25, 100))
        start_map == StartMap(input)
        preload_ratio == Div(current_v_blood_est, opt_preload)
        preload_efficiency == CalibratorPreloadEfficiency(preload_ratio)
        max_co == Mul(input.weight_kg, Frac(15, 100))
        base_co == Mul(Mul(max_co, contractility), preload_efficiency)
        cvp0 == IF deficit_factor > 0 THEN Num(2) ELSE Num(5)
        assumed_cvp == IF HasWetLungs(input) THEN Max(cvp0, Num(16))
                       ELSE IF input.baseline_hepatomegaly THEN Max(cvp0, Num(8))
                       ELSE cvp0
        solved == SolveSvr(15, hemo.svr, base_co, afterload_sens, start_map, assumed_cvp)
        final_svr == Max(Num(200), Min(solved, Num(20000)))
        final_sens == IF final_svr > Num(3000) THEN Mul(afterload_sens, Frac(5, 10))
                      ELSE afterload_sens
    IN  [tbw_fraction |-> vols.tbw_fraction,
         v_blood_normal_l |-> vols.v_blood,
         v_inter_normal_l |-> vols.v_interstitial,
         cardiac_contractility |-> contractility,
         heart_stiffness_k |-> Num(4),
         svr_resistance |-> final_svr,
         capillary_filtration_k |-> k_f_base,
         blood_viscosity_eta |-> hemo.viscosity,
         tissue_compliance_factor |-> tissue_compliance,
         renal_maturity_factor |-> renal_factor,
         max_cardiac_output_l_min |-> max_co,
         venous_compliance_ml_mmhg |-> Mul(input.weight_kg, Frac(15, 10)),
         osmotic_conductance_k |-> Frac(5, 10),
         lymphatic_drainage_capacity_ml_min |-> Mul(input.weight_kg, Frac(3, 100)),
         intracellular_sodium_bias |-> sodium_bias,
         target_map_mmhg |-> target_map,
         target_heart_rate_upper_limit |-> max_hr,
         target_respiratory_rate_limit |-> stop_rr,
         insensible_loss_ml_min |-> insensible_rate,
         plasma_oncotic_pressure_mmhg |-> pi_plasma,
         reflection_coefficient_sigma |-> sigma,
         glucose_utilization_mg_kg_min |-> glucose_burn,
         albumin_uncertainty_g_dl |-> albumin_uncertainty,
         weight_kg |-> input.weight_kg,
         interstitial_compliance_ml_mmhg |-> interstitial_compliance,
         afterload_sensitivity |-> final_sens,
         baseline_capillary_pressure_mmhg |-> base_pc,
         optimal_preload_ml |-> opt_preload,
         target_cvp_mmhg |-> assumed_cvp,
         final_starting_blood_volume_l |-> current_v_blood_est,
         is_sam |-> is_sam,
         capillary_recruitment_base |-> capillary_recruitment_base]

(***************************************************************************)
(* State initializer.                                                      *)
(***************************************************************************)
initialize_simulation_state(input, params) ==
    LET vols == _calculate_compartment_volumes(input)
        septic == input.diagnosis = "SEPTIC_SHOCK"
        baseline_edema_ml == IF input.diagnosis = "SAM_DEHYDRATION" THEN input.weight_kg * 15
                             ELSE IF septic THEN input.weight_kg * 5
                             ELSE 0
        v_inter0 == IF baseline_edema_ml > 0 THEN params.v_inter_normal_l + baseline_edema_ml
                    ELSE params.v_inter_normal_l
        start_map == StartMap(input)
        co0 == Mul(Mul(params.max_cardiac_output_l_min, params.cardiac_contractility),
                   Frac(75, 100))
        co_est == IF septic THEN Mul(co0, Frac(12, 10)) ELSE co0
        pressure_drop == Mul(co_est, params.svr_resistance) \div 80
        estimated_cvp == start_map - pressure_drop
        cvp0 == Max(SC, Min(estimated_cvp, Num(18)))
        start_cvp == IF input.baseline_hepatomegaly THEN Max(cvp0, Num(10)) ELSE cvp0
        vol_excess_ml == Mul(start_cvp - Num(3), params.venous_compliance_ml_mmhg)
        current_v_blood == Max(params.v_blood_normal_l + vol_excess_ml,
                               Mul(params.v_blood_normal_l, Frac(35, 100)))
        equilibrium_p_inter == Mul(start_cvp - Num(8), Frac(5, 10))
        current_v_inter == IF start_cvp > Num(8) /\ equilibrium_p_inter > 0
                           THEN v_inter0 + Mul(equilibrium_p_inter,
                                               params.interstitial_compliance_ml_mmhg)
                           ELSE v_inter0
        inter_excess_ml == current_v_inter - params.v_inter_normal_l
        start_p_inter == Max(-Num(2), Div(inter_excess_ml,
                                          params.interstitial_compliance_ml_mmhg))
        g0 == IF Truthy(input.current_glucose) THEN input.current_glucose ELSE Num(90)
        start_glucose == IF septic /\ ~Truthy(input.current_glucose) THEN Num(65) ELSE g0
        n0 == IF Truthy(input.current_sodium) THEN input.current_sodium ELSE Num(140)
        start_sodium == IF params.is_sam /\ ~Truthy(input.current_sodium) THEN Num(132) ELSE n0
        start_lactate == IF Truthy(input.lactate_mmol_l) THEN input.lactate_mmol_l
                         ELSE IF input.capillary_refill_sec > 4 THEN Num(6)
                         ELSE IF input.capillary_refill_sec > 2 THEN Frac(35, 10)
                         ELSE Num(2)
    IN  [time_minutes |-> 0,
         v_blood_current_l |-> current_v_blood,
         v_interstitial_current_l |-> Max(current_v_inter, Num(100)),
         v_intracellular_current_l |-> vols.v_intracellular,
         cvp_mmHg |-> start_cvp,
         p_interstitial_mmHg |-> start_p_inter,
         map_mmHg |-> start_map,
         pcwp_mmHg |-> Mul(start_cvp, Frac(125, 100)),
         q_infusion_ml_min |-> 0,
         q_leak_ml_min |-> 0,
         q_urine_ml_min |-> 0,
         q_lymph_ml_min |-> 0,
         q_osmotic_shift_ml_min |-> 0,
         total_volume_infused_ml |-> 0,
         total_sodium_load_meq |-> 0,
         current_hematocrit_dynamic |-> input.hematocrit_pct,
         current_weight_dynamic_kg |-> input.weight_kg,
         q_ongoing_loss_ml_min |-> (input.weight_kg * input.ongoing_losses_severity) \div 60,
         q_insensible_loss_ml_min |-> params.insensible_loss_ml_min,
         current_glucose_mg_dl |-> start_glucose,
         current_sodium |-> start_sodium,
         current_hemoglobin |-> IF Truthy(input.hemoglobin_g_dl) THEN input.hemoglobin_g_dl
                                ELSE Num(11),
         current_potassium |-> IF params.is_sam THEN Frac(38, 10) ELSE Frac(42, 10),
         current_lactate_mmol_l |-> start_lactate,
         cumulative_bolus_count |-> 0,
         time_since_last_bolus_min |-> Num(999),
         is_sam |-> params.is_sam,
         capillary_recruitment_base |-> params.capillary_recruitment_base,
         final_starting_blood_volume_l |-> current_v_blood]

\* The 24-month, 10-kg child of the clinical scenarios (create_base_patient).
BasePatient ==
    [age_months |-> 24, weight_kg |-> Num(10), sex |-> "M", muac_cm |-> Num(14),
     temp_celsius |-> Num(37), hemoglobin_g_dl |-> Num(10), systolic_bp |-> 80,
     heart_rate |-> 140, capillary_refill_sec |-> 3, sp_o2_percent |-> 98,
     respiratory_rate_bpm |-> 35, diastolic_bp |-> None, lactate_mmol_l |-> None,
     illness_day |-> 3, plasma_albumin_g_dl |-> None, platelet_count |-> None,
     current_sodium |-> Num(135), current_glucose |-> Num(80),
     hematocrit_pct |-> Num(35), diagnosis |-> "UNKNOWN",
     time_since_last_urine_hours |-> 0, ongoing_losses_severity |-> 0,
     baseline_hepatomegaly |-> FALSE, height_cm |-> None]

(***************************************************************************)
(* Simulator: the fluxes of one evaluation and the minute step.            *)
(***************************************************************************)
\* The Frank-Starling curve of the simulator.
PreloadEfficiency(preload_ratio, params) ==
    IF preload_ratio <= SC
    THEN IF preload_ratio < Frac(8, 10) /\ ~params.is_sam
         THEN LET max_boost == Mul(Frac(3, 10), params.cardiac_contractility)
                  compensatory_boost == SC + Mul(Frac(8, 10) - preload_ratio, max_boost)
              IN  Mul(preload_ratio, compensatory_boost)
         ELSE preload_ratio
    ELSE IF preload_ratio <= Frac(13, 10) THEN SC
    ELSE Max(Frac(85, 100), SC - Mul(preload_ratio - Frac(13, 10), Frac(3, 10)))

\* Renal output from the perfusion pressure.
UrineFlux(perfusion_p, params) ==
    LET baseline_gfr == Mul(Mul(Frac(21, 10), params.weight_kg \div 10),
                            params.renal_maturity_factor)
    IN  IF perfusion_p < Num(30) THEN 0
        ELSE IF perfusion_p < Num(60)
             THEN LET sigmoid == Div(SC, SC + Exp(-((perfusion_p - Num(45)) \div 5)))
                  IN  Mul(Mul(Mul(perfusion_p - Num(30), Frac(3, 100)),
                              params.renal_maturity_factor), sigmoid)
        ELSE IF perfusion_p < Num(100) THEN baseline_gfr
        ELSE Mul(baseline_gfr, SC + Mul(perfusion_p - Num(100), Frac(1, 100)))

\* SECTION 1 (cardiac output): the preload ratio.
PreloadRatio(state, params) ==
    Div(state.v_blood_current_l, Max(params.optimal_preload_ml, Num(10)))

\* SECTION 1, "3. SVR CALCULATION": the dynamic resistance.
SvrDynamic(state, params, preload_ratio, preload_efficiency) ==
    LET afterload_factor == AfterloadFactor(params.svr_resistance,
                                            params.afterload_sensitivity, Frac(5, 10))
        safe_cvp == Max(Frac(1, 10), state.cvp_mmHg)
        potential_svr == Mul(params.svr_resistance,
                             Pow03(Div(params.target_cvp_mmhg, safe_cvp)))
        is_hypotensive == state.map_mmHg < params.target_map_mmhg - Num(5)
        is_empty_heart == preload_ratio < Frac(95, 100)
        target_svr == IF is_hypotensive \/ is_empty_heart THEN params.svr_resistance
                      ELSE Min(potential_svr, params.svr_resistance)
        true_co_est == Max(Frac(1, 100),
                           Mul(Mul(Mul(params.max_cardiac_output_l_min,
                                       params.cardiac_contractility),
                                   preload_efficiency), afterload_factor))
        current_svr_est == DivSat((state.map_mmHg - state.cvp_mmHg) * 80, true_co_est, SvrCap)
        inertia == IF ~is_hypotensive THEN Frac(999, 1000) ELSE Frac(995, 1000)
        svr0 == Mul(current_svr_est, inertia) + Mul(target_svr, SC - inertia)
        svr1 == IF params.is_sam
                THEN Max(Min(svr0, Mul(params.svr_resistance, Frac(12, 10))),
                         Mul(params.svr_resistance, Frac(6, 10)))
                ELSE svr0
    IN  Max(Num(200), Min(svr1, Num(20000)))

\* SECTION 1, "4. FINAL CO & MAP": MAP = CO * SVR / 80 + CVP, clamped to [30, 160].
DerivedMap(state, params, preload_efficiency, svr_dynamic) ==
    LET afterload_factor_updated == AfterloadFactor(svr_dynamic,
                                                    params.afterload_sensitivity, Frac(5, 10))
        co_l_min == Mul(Mul(Mul(params.max_cardiac_output_l_min,
                                params.cardiac_contractility),
                            preload_efficiency), afterload_factor_updated)
    IN  Max(Num(30), Min(Mul(co_l_min, svr_dynamic) \div 80 + state.cvp_mmHg, Num(160)))

\* SECTIONS 2-5: the fluxes, given the preload ratio and the derived MAP.
Fluxes(state, params, current_fluid, infusion_rate_ml_min, preload_ratio, derived_map) ==
    LET p_capillary == Mul(params.baseline_capillary_pressure_mmhg,
                           Div(derived_map, params.target_map_mmhg))
        dilution == Div(params.v_blood_normal_l, state.v_blood_current_l)
        pi0 == Mul(params.plasma_oncotic_pressure_mmhg, dilution)
        current_pi_c == IF current_fluid.is_colloid THEN pi0 + Num(2) ELSE pi0
        hydrostatic_net == p_capillary - state.p_interstitial_mmHg
        oncotic_net == Mul(params.reflection_coefficient_sigma, current_pi_c - Num(5))
        kf0 == IF current_fluid.is_colloid /\ params.reflection_coefficient_sigma < Frac(6, 10)
               THEN Mul(params.capillary_filtration_k, Frac(5, 10))
               ELSE params.capillary_filtration_k
        recruit0 == IF derived_map < Num(50) THEN Num(2)
                    ELSE IF preload_ratio < Frac(8, 10) THEN Frac(5, 10)
                    ELSE SC
        recruit1 == Mul(params.capillary_recruitment_base, recruit0)
        capillary_recruitment == IF params.is_sam THEN Min(recruit1, Frac(8, 10)) ELSE recruit1
        effective_kf == Mul(kf0, capillary_recruitment)
        q_leak == Max(0, Mul(effective_kf, hydrostatic_net - oncotic_net))
        lymph_drive == Min(Frac(2, 10) + Max(0, (state.p_interstitial_mmHg + Num(2)) \div 4),
                           Num(3))
        lymphatic_efficiency == IF params.is_sam THEN Frac(4, 10) ELSE SC
        q_lymph == Mul(Mul(params.lymphatic_drainage_capacity_ml_min, lymph_drive),
                       lymphatic_efficiency)
        perfusion_p == derived_map - state.cvp_mmHg
        q_urine == UrineFlux(perfusion_p, params)
        ecf_volume_l == state.v_blood_current_l + state.v_interstitial_current_l
        tonic_diff == state.current_sodium - current_fluid.sodium_meq_l
        osm0 == Mul(Mul(Mul(infusion_rate_ml_min, tonic_diff),
                        Mul(params.osmotic_conductance_k, Frac(5, 1000))),
                    params.intracellular_sodium_bias) \div 1000
        q_osmotic == IF infusion_rate_ml_min > 0 /\ ecf_volume_l > 0
                     THEN (IF current_fluid.glucose_g_l > 0
                           THEN osm0 + Mul(infusion_rate_ml_min, Frac(5, 10))
                           ELSE osm0)
                     ELSE 0
    IN  [q_leak |-> q_leak, q_urine |-> q_urine, q_lymph |-> q_lymph,
         q_osmotic |-> q_osmotic, derived_map |-> derived_map,
         derived_cvp |-> state.cvp_mmHg]

\* The derived MAP of a state, through the Frank-Starling curve and the SVR.
DerivedMapOf(state, params, preload_ratio, preload_efficiency) ==
    DerivedMap(state, params, preload_efficiency,
               SvrDynamic(state, params, preload_ratio, preload_efficiency))

FluxesAt(state, params, current_fluid, infusion_rate_ml_min, preload_ratio) ==
    Fluxes(state, params, current_fluid, infusion_rate_ml_min, preload_ratio,
           DerivedMapOf(state, params, preload_ratio, PreloadEfficiency(preload_ratio, params)))

_calculate_derivatives(state, params, current_fluid, infusion_rate_ml_min) ==
    FluxesAt(state, params, current_fluid, infusion_rate_ml_min, PreloadRatio(state, params))

\* Variant of FloorBlood: the blood volume taken as integrated, no floor.
FloorBlood_NoFloor(v, params) == v

\* The three volumes after the floors ("3. NEW VOLUMES (Safety floors)").
FloorBlood(v, params) == Max(v, Mul(params.v_blood_normal_l, Frac(4, 10)))
FloorInterstitial(v) == Max(v, Num(100))
FloorIntracellular(v) == Max(v, Num(100))

\* Variant of CvpFromVolume: the upper clamp only.
CvpFromVolume_NoLowerClamp(v_blood, params) ==
    Min(Num(3) + Div(v_blood - params.v_blood_normal_l,
                     params.venous_compliance_ml_mmhg), Num(25))

\* Pressures from volumes.
CvpFromVolume(v_blood, params) ==
    Max(SC, Min(Num(3) + Div(v_blood - params.v_blood_normal_l,
                             params.venous_compliance_ml_mmhg), Num(25)))
PInterFromVolume(v_inter, params) ==
    Max(-Num(2), Div(v_inter - params.v_inter_normal_l,
                     params.interstitial_compliance_ml_mmhg))

\* MAP of the returned state: 0.7 * previous + 0.3 * re-derived.
SmoothMap(old_map, derived_map) == Mul(old_map, Frac(7, 10)) + Mul(derived_map, Frac(3, 10))

\* Variant of the hemoglobin update with the volume ratio inverted (the
\* concentration follows the blood volume instead of opposing it).
NewHemoglobin_InvertedRatio(state, fluid_type, step_infusion_ml, new_v_blood) ==
    Max(Num(2), Min(Mul(state.current_hemoglobin, Div(new_v_blood, state.v_blood_current_l)),
                    Num(26)))

\* Variant of the hemoglobin update that leaves out the red cells of a PRBC
\* infusion.
NewHemoglobin_NoInflux(state, fluid_type, step_infusion_ml, new_v_blood) ==
    LET current_hb_mass_g == MulDiv(state.current_hemoglobin, state.v_blood_current_l, 100)
    IN  Max(Num(2), Min(DivScaled(current_hb_mass_g, new_v_blood, 2), Num(26)))

\* Variant of NewHemoglobin: the concentration left unclamped.
NewHemoglobin_Unclamped(state, fluid_type, step_infusion_ml, new_v_blood) ==
    LET current_hb_mass_g == MulDiv(state.current_hemoglobin, state.v_blood_current_l, 100)
        hb_conc_in_fluid == IF fluid_type = "PRBC" THEN Num(22) ELSE 0
        hb_influx_g == MulDiv(hb_conc_in_fluid, step_infusion_ml, 100)
    IN  DivScaled(current_hb_mass_g + hb_influx_g, new_v_blood, 2)

\* Hemoglobin after the step (mass balance over the new blood volume).
NewHemoglobin(state, fluid_type, step_infusion_ml, new_v_blood) ==
    LET current_hb_mass_g == MulDiv(state.current_hemoglobin, state.v_blood_current_l, 100)
        hb_conc_in_fluid == IF fluid_type = "PRBC" THEN Num(22) ELSE 0
        hb_influx_g == MulDiv(hb_conc_in_fluid, step_infusion_ml, 100)
        new_total_hb_mass == current_hb_mass_g + hb_influx_g
    IN  Max(Num(2), Min(DivScaled(new_total_hb_mass, new_v_blood, 2), Num(26)))

\* Urine sodium concentration.
UrineNaConc(state, params) ==
    LET base == IF state.current_sodium > Num(145) THEN Num(100)
                ELSE IF state.current_sodium < Num(130) THEN Num(10)
                ELSE Num(60)
    IN  IF params.is_sam THEN Min(base, Num(20))
        ELSE IF params.reflection_coefficient_sigma < Frac(6, 10) THEN Max(base, Num(80))
        ELSE base

NewSodium(state, params, fluid_props, step_infusion_ml, q_urine, dt, ecf_vol) ==
    LET current_na_mass == MulDiv(state.current_sodium,
                                  state.v_blood_current_l + state.v_interstitial_current_l, 1000)
        na_influx == MulDiv(fluid_props.sodium_meq_l, step_infusion_ml, 1000)
        na_efflux == MulDiv(Mul(q_urine, dt), UrineNaConc(state, params), 1000)
    IN  Max(Num(110), Min(DivScaled(current_na_mass + na_influx - na_efflux, ecf_vol, 3),
                          Num(180)))

NewPotassium(state, params, fluid_props, step_infusion_ml, q_urine, dt, ecf_vol) ==
    LET current_k_mass == MulDiv(state.current_potassium,
                                 state.v_blood_current_l + state.v_interstitial_current_l, 1000)
        k_influx == MulDiv(fluid_props.potassium_meq_l, step_infusion_ml, 1000)
        k_efflux == MulDiv(Mul(q_urine, dt), Num(40), 1000)
        k_shift_loss == IF params.reflection_coefficient_sigma < Frac(6, 10)
                        THEN Mul(Frac(5, 1000), dt) ELSE 0
    IN  Max(Frac(15, 10),
            Min(DivScaled(current_k_mass + k_influx - k_efflux - k_shift_loss, ecf_vol, 3),
                Num(9)))

NewGlucose(state, params, fluid_props, step_infusion_ml, dt, ecf_vol) ==
    LET current_gluc_mass_mg == MulDiv(state.current_glucose_mg_dl,
                                       state.v_blood_current_l + state.v_interstitial_current_l, 100)
        gluc_influx_mg == Mul(fluid_props.glucose_g_l, step_infusion_ml)
        b0 == params.glucose_utilization_mg_kg_min
        b1 == IF params.reflection_coefficient_sigma < Frac(6, 10) THEN Mul(b0, Frac(15, 10)) ELSE b0
        burn_rate == IF params.is_sam THEN Mul(b1, Frac(7, 10)) ELSE b1
        gluc_consumption_mg == Mul(Mul(params.weight_kg, burn_rate), dt)
    IN  Max(Num(10),
            Min(DivScaled(current_gluc_mass_mg + gluc_influx_mg - gluc_consumption_mg, ecf_vol, 2),
                Num(800)))

NewLactate(state, params, new_map, new_cvp, dt) ==
    LET perfusion_p == new_map - new_cvp
        clearance_k == IF params.reflection_coefficient_sigma < Frac(6, 10) THEN Frac(2, 100)
                       ELSE Mul(Frac(8, 100), perfusion_p \div 65)
        l0 == Mul(state.current_lactate_mmol_l, SC - Mul(clearance_k, dt))
        new_lactate == IF perfusion_p < Num(35) THEN l0 + Mul(Frac(15, 100), dt) ELSE l0
    IN  Max(Frac(1, 10), Min(new_lactate, Num(25)))

\* Bolus timer.
NewTimeSinceBolus(state, step_infused_vol_ml, dt) ==
    IF step_infused_vol_ml > Frac(1, 10) THEN 0 ELSE state.time_since_last_bolus_min + dt

\* Variant of VolumeChanges: the insensible loss not taken from the interstitium.
VolumeChanges_InsensibleDropped(state, fluid_props, rate_min, dt_minutes, fluxes) ==
    LET vol_dist == fluid_props.vol_distribution_intravascular
    IN  [dv_blood_ml |-> Mul(Mul(rate_min, vol_dist), dt_minutes)
                         + Mul(fluxes.q_lymph, dt_minutes)
                         - Mul(fluxes.q_leak, dt_minutes)
                         - Mul(fluxes.q_urine, dt_minutes)
                         - Mul(Mul(state.q_ongoing_loss_ml_min, Frac(25, 100)), dt_minutes),
         dv_inter_ml |-> Mul(fluxes.q_leak, dt_minutes)
                         + Mul(Mul(rate_min, SC - vol_dist), dt_minutes)
                         - Mul(fluxes.q_lymph, dt_minutes)
                         - Mul(Mul(state.q_ongoing_loss_ml_min, Frac(75, 100)), dt_minutes)
                         - Mul(fluxes.q_osmotic, dt_minutes),
         dv_icf_ml |-> Mul(fluxes.q_osmotic, dt_minutes)]

\* "2. VOLUME UPDATES": the change of each compartment in ml.
VolumeChanges(state, fluid_props, rate_min, dt_minutes, fluxes) ==
    LET vol_dist == fluid_props.vol_distribution_intravascular
    IN  [dv_blood_ml |-> Mul(Mul(rate_min, vol_dist), dt_minutes)
                         + Mul(fluxes.q_lymph, dt_minutes)
                         - Mul(fluxes.q_leak, dt_minutes)
                         - Mul(fluxes.q_urine, dt_minutes)
                         - Mul(Mul(state.q_ongoing_loss_ml_min, Frac(25, 100)), dt_minutes),
         dv_inter_ml |-> Mul(fluxes.q_leak, dt_minutes)
                         + Mul(Mul(rate_min, SC - vol_dist), dt_minutes)
                         - Mul(fluxes.q_lymph, dt_minutes)
                         - Mul(Mul(state.q_ongoing_loss_ml_min, Frac(75, 100)), dt_minutes)
                         - Mul(state.q_insensible_loss_ml_min, dt_minutes)
                         - Mul(fluxes.q_osmotic, dt_minutes),
         dv_icf_ml |-> Mul(fluxes.q_osmotic, dt_minutes)]

\* "3. NEW VOLUMES" and "4. PRESSURES FROM VOLUMES".
NewVolumes(state, params, dv) ==
    [v_blood |-> FloorBlood(state.v_blood_current_l + dv.dv_blood_ml, params),
     v_inter |-> FloorInterstitial(state.v_interstitial_current_l + dv.dv_inter_ml),
     v_icf |-> FloorIntracellular(state.v_intracellular_current_l + dv.dv_icf_ml)]

NewPressures(params, vol) ==
    [cvp |-> CvpFromVolume(vol.v_blood, params),
     p_inter |-> PInterFromVolume(vol.v_inter, params)]

\* "5. MAP EMERGES NATURALLY": the fluxes re-derived at the new volumes.
NewMap(state, params, fluid_props, rate_min, vol, pres) ==
    SmoothMap(state.map_mmHg,
              _calculate_derivatives([state EXCEPT !.v_blood_current_l = vol.v_blood,
                                                   !.v_interstitial_current_l = vol.v_inter,
                                                   !.cvp_mmHg = pres.cvp,
                                                   !.p_interstitial_mmHg = pres.p_inter],
                                     params, fluid_props, rate_min).derived_map)

\* "6. METABOLIC UPDATES" to the returned state.
Hematocrit(new_hemoglobin) == new_hemoglobin * 3

StepResult(state, params, fluid_type, fluid_props, rate_min, dt_minutes, fluxes, dv, vol, pres, new_map, new_hemoglobin) ==
    LET step_infusion_ml == Mul(rate_min, dt_minutes)
        ecf_vol == vol.v_blood + vol.v_inter
        na_in_meq_min == MulDiv(rate_min, fluid_props.sodium_meq_l, 1000)
        total_fluid_change_l == (dv.dv_blood_ml + dv.dv_inter_ml + dv.dv_icf_ml) \div 1000
    IN  [state EXCEPT
           !.time_minutes = state.time_minutes + dt_minutes,
           !.v_blood_current_l = vol.v_blood,
           !.v_interstitial_current_l = vol.v_inter,
           !.v_intracellular_current_l = vol.v_icf,
           !.map_mmHg = new_map,
           !.cvp_mmHg = pres.cvp,
           !.p_interstitial_mmHg = pres.p_inter,
           !.pcwp_mmHg = Mul(pres.cvp, Frac(12, 10)),
           !.q_infusion_ml_min = rate_min,
           !.q_leak_ml_min = fluxes.q_leak,
           !.q_urine_ml_min = fluxes.q_urine,
           !.q_lymph_ml_min = fluxes.q_lymph,
           !.q_osmotic_shift_ml_min = fluxes.q_osmotic,
           !.current_glucose_mg_dl = NewGlucose(state, params, fluid_props,
                                                step_infusion_ml, dt_minutes, ecf_vol),
           !.current_sodium = NewSodium(state, params, fluid_props, step_infusion_ml,
                                        fluxes.q_urine, dt_minutes, ecf_vol),
           !.current_hemoglobin = new_hemoglobin,
           !.current_hematocrit_dynamic = Hematocrit(new_hemoglobin),
           !.current_potassium = NewPotassium(state, params, fluid_props, step_infusion_ml,
                                              fluxes.q_urine, dt_minutes, ecf_vol),
           !.current_lactate_mmol_l = NewLactate(state, params, new_map, pres.cvp, dt_minutes),
           !.total_volume_infused_ml = state.total_volume_infused_ml + Mul(rate_min, dt_minutes),
           !.total_sodium_load_meq = state.total_sodium_load_meq + Mul(na_in_meq_min, dt_minutes),
           !.current_weight_dynamic_kg = state.current_weight_dynamic_kg + total_fluid_change_l,
           !.cumulative_bolus_count = state.cumulative_bolus_count,
           !.time_since_last_bolus_min = NewTimeSinceBolus(state, step_infusion_ml, dt_minutes)]

\* The step from the new volumes and pressures on.
StepFromPressures(state, params, fluid_type, fluid_props, rate_min, dt_minutes, fluxes, dv, vol, pres) ==
    StepResult(state, params, fluid_type, fluid_props, rate_min, dt_minutes, fluxes, dv, vol, pres,
               NewMap(state, params, fluid_props, rate_min, vol, pres),
               NewHemoglobin(state, fluid_type, Mul(rate_min, dt_minutes), vol.v_blood))

StepFromVolumes(state, params, fluid_type, fluid_props, rate_min, dt_minutes, fluxes, dv, vol) ==
    StepFromPressures(state, params, fluid_type, fluid_props, rate_min, dt_minutes, fluxes, dv,
                      vol, NewPressures(params, vol))

StepFromChanges(state, params, fluid_type, fluid_props, rate_min, dt_minutes, fluxes, dv) ==
    StepFromVolumes(state, params, fluid_type, fluid_props, rate_min, dt_minutes, fluxes, dv,
                    NewVolumes(state, params, dv))

StepFromFluxes(state, params, fluid_type, fluid_props, rate_min, dt_minutes, fluxes) ==
    StepFromChanges(state, params, fluid_type, fluid_props, rate_min, dt_minutes, fluxes,
                    VolumeChanges(state, fluid_props, rate_min, dt_minutes, fluxes))

StepWithFluid(state, params, fluid_type, fluid_props, rate_min, dt_minutes) ==
    StepFromFluxes(state, params, fluid_type, fluid_props, rate_min, dt_minutes,
                   _calculate_derivatives(state, params, fluid_props, rate_min))

simulate_single_step(state, params, infusion_rate_ml_hr, fluid_type, dt_minutes) ==
    StepWithFluid(state, params, fluid_type, FLUID_LIBRARY_get(fluid_type),
                  infusion_rate_ml_hr \div 60, dt_minutes)

(***************************************************************************)
(* Driver: run_simulation.                                                 *)
(***************************************************************************)
\* int(x): truncation toward zero, an integer.
IntTrunc(x) == Sgn(x) * (Abs(x) \div SC)

\* round(x, nd) with unit = SC / 10^nd: to the nearest multiple, halves to even.
Round(x, unit) ==
    LET a == Abs(x)
        q == a \div unit
        r == a % unit
        up == 2 * r > unit \/ (2 * r = unit /\ q % 2 = 1)
    IN  Sgn(x) * unit * (IF up THEN q + 1 ELSE q)

\* The trigger texts; the millilitre figure the code formats into the volume
\* warning and the reassessment text is constant within a run and left out.
STOP_CONGESTION == "STOP: Pre-existing Pulmonary Congestion/Hypoxia"
STOP_EDEMA == "STOP: Pulmonary Edema Risk (Crackles predicted)"
WARN_VOLUME == "WARNING: Total Volume > safe_limit_ml. Re-assess."
CRITICAL_HEMODILUTION == "CRITICAL: Hemodilution (Hct < 20). Need Blood."
REASSESS == "REASSESS: 10ml/kg delivered. Check Vitals/Liver Span."

\* Variant of the guard that uses the loop's edema threshold (> 5.0) instead.
PreExistingCongestion_LoopThreshold(initial_state) == initial_state.p_interstitial_mmHg > Num(5)
\* The pre-run guard and the two hard stops of the loop.
PreExistingCongestion(initial_state) == initial_state.p_interstitial_mmHg >= Num(4)
\* Variant of the loop's edema stop that never fires.
EdemaStop_Never(s) == s.p_interstitial_mmHg > s.p_interstitial_mmHg
EdemaStop(s) == s.p_interstitial_mmHg > Num(5)
HemodilutionStop(s) == s.current_hematocrit_dynamic < Num(20)

\* The reassessment trigger of the loop.
ReassessDue(s, params) ==
    /\ s.total_volume_infused_ml >= params.weight_kg * 10
    /\ s.cumulative_bolus_count = 0

TrajectoryPoint0(initial_state) ==
    [time |-> 0,
     map |-> IntTrunc(initial_state.map_mmHg),
     lung_water |-> Round(Max(0, initial_state.p_interstitial_mmHg), SC \div 10),
     leak_rate |-> 0,
     urine_output |-> 0,
     sodium |-> Round(initial_state.current_sodium, SC \div 10),
     potassium |-> Round(initial_state.current_potassium, SC \div 100),
     glucose |-> IntTrunc(initial_state.current_glucose_mg_dl),
     hb |-> Round(initial_state.current_hemoglobin, SC \div 10),
     hct |-> Round(initial_state.current_hematocrit_dynamic, SC \div 10)]

TrajectoryPoint(t, s) ==
    [time |-> t + 1,
     map |-> IntTrunc(s.map_mmHg),
     lung_water |-> Round(s.p_interstitial_mmHg, SC \div 10),
     leak_rate |-> Round(s.q_leak_ml_min, SC \div 100),
     urine_output |-> Round(s.q_urine_ml_min, SC \div 100),
     sodium |-> Round(s.current_sodium, SC \div 10),
     potassium |-> Round(s.current_potassium, SC \div 100),
     glucose |-> IntTrunc(s.current_glucose_mg_dl),
     hb |-> Round(s.current_hemoglobin, SC \div 10),
     hct |-> Round(s.current_hematocrit_dynamic, SC \div 10)]

\* One pass of the loop body after its call of simulate_single_step.  acc
\* carries the loop's variables and, in posts, the state each executed step
\* returned; aborted is set where the code breaks out of the loop.
LoopBody(acc, params, rate_ml_hr, fluid, t, duration_min, return_series, stepped) ==
    LET traj == IF return_series THEN Append(acc.trajectory, TrajectoryPoint(t, stepped))
                ELSE acc.trajectory
        posts == Append(acc.posts, stepped)
        safe_limit_ml == Mul(params.v_blood_normal_l, Frac(8, 10))
        trig1 == IF stepped.total_volume_infused_ml > safe_limit_ml
                 THEN Append(acc.triggers, WARN_VOLUME) ELSE acc.triggers
    IN  IF EdemaStop(stepped)
        THEN [current_state |-> stepped, triggers |-> Append(acc.triggers, STOP_EDEMA),
              trajectory |-> traj, aborted |-> TRUE, posts |-> posts]
        ELSE IF HemodilutionStop(stepped)
        THEN [current_state |-> stepped, triggers |-> Append(trig1, CRITICAL_HEMODILUTION),
              trajectory |-> traj, aborted |-> TRUE, posts |-> posts]
        ELSE IF ReassessDue(stepped, params)
        THEN [current_state |-> [stepped EXCEPT !.cumulative_bolus_count = 1],
              triggers |-> Append(trig1, REASSESS),
              trajectory |-> traj, aborted |-> FALSE, posts |-> posts]
        ELSE [current_state |-> stepped, triggers |-> trig1,
              trajectory |-> traj, aborted |-> FALSE, posts |-> posts]

\* The passes t .. duration_min - 1 of the simulation loop, in order; after a
\* break no further pass runs.  The range is worked through in halves, the
\* earlier half first, which keeps the nesting of the evaluation shallow.
RECURSIVE SimulationLoop(_, _, _, _, _, _, _)
SimulationLoop(acc, params, rate_ml_hr, fluid, t, duration_min, return_series) ==
    IF t >= duration_min \/ acc.aborted THEN acc
    ELSE IF duration_min - t = 1
    THEN LoopBody(acc, params, rate_ml_hr, fluid, t, duration_min, return_series,
                  simulate_single_step(acc.current_state, params, rate_ml_hr, fluid, Num(1)))
    ELSE SimulationLoop(SimulationLoop(acc, params, rate_ml_hr, fluid, t,
                                       (t + duration_min) \div 2, return_series),
                        params, rate_ml_hr, fluid, (t + duration_min) \div 2, duration_min,
                        return_series)

\* Variant of the rate that leaves out the conversion to an hourly rate.
RateMlHr_PerMinute(volume_ml, duration_min) == Num(volume_ml) \div duration_min
\* The rate of the run: (volume_ml / duration_min) * 60.
RateMlHr(volume_ml, duration_min) == (Num(volume_ml) \div duration_min) * 60

\* The result dict after the loop.
RunResult(initial_state, rate_ml_hr, done) ==
    [final_state |-> done.current_state,
     success |-> ~done.aborted,
     triggers |-> done.triggers,
     predicted_map_rise |-> IntTrunc(done.current_state.map_mmHg - initial_state.map_mmHg),
     fluid_leaked_percentage |->
         IF rate_ml_hr > 0
         THEN IntTrunc(Div(done.current_state.q_leak_ml_min, rate_ml_hr \div 60) * 100)
         ELSE 0,
     trajectory |-> done.trajectory]

\* The result dict of the pre-run refusal.
RefusalResult(initial_state) ==
    [final_state |-> initial_state,
     success |-> FALSE,
     triggers |-> <<STOP_CONGESTION>>,
     predicted_map_rise |-> 0,
     fluid_leaked_percentage |-> 0]

RunOutcome(initial_state, rate_ml_hr, done) ==
    [raised |-> "", posts |-> done.posts, ret |-> RunResult(initial_state, rate_ml_hr, done)]

\* The outcome of a call: the returned dict (ret), or the exception raised
\* (raised), with the states the executed steps returned (posts).
run_simulation(initial_state, params, fluid, volume_ml, duration_min, return_series) ==
    IF PreExistingCongestion(initial_state)
    THEN [raised |-> "", posts |-> << >>, ret |-> RefusalResult(initial_state)]
    ELSE IF duration_min = 0
    THEN [raised |-> "ZeroDivisionError", posts |-> << >>, ret |-> << >>]
    ELSE RunOutcome(initial_state, RateMlHr(volume_ml, duration_min),
                    SimulationLoop([current_state |-> initial_state, triggers |-> << >>,
                                    trajectory |-> IF return_series
                                                   THEN <<TrajectoryPoint0(initial_state)>>
                                                   ELSE << >>,
                                    aborted |-> FALSE, posts |-> << >>],
                                   params, RateMlHr(volume_ml, duration_min), fluid, 0,
                                   duration_min, return_series))

(***************************************************************************)
(* The engine in use: a caller builds the twin of one patient and then     *)
(* calls simulate_single_step and run_simulation, carrying the returned    *)
(* state into the next call.                                               *)
(***************************************************************************)
\* Valid inputs: each passes PatientInput.__post_init__.
Dehydrated ==
    [BasePatient EXCEPT !.diagnosis = "SEVERE_DEHYDRATION", !.ongoing_losses_severity = 10,
                        !.capillary_refill_sec = 5]
AnemicSeptic ==
    [BasePatient EXCEPT !.diagnosis = "SEPTIC_SHOCK", !.hemoglobin_g_dl = Num(6),
                        !.hematocrit_pct = Num(18)]
SamSeptic ==
    [BasePatient EXCEPT !.diagnosis = "SEPTIC_SHOCK", !.muac_cm = Frac(105, 10)]
SamDehydration ==
    [BasePatient EXCEPT !.diagnosis = "SAM_DEHYDRATION", !.muac_cm = Frac(105, 10)]
Hypotensive == [BasePatient EXCEPT !.systolic_bp = 40]
Hypertensive == [BasePatient EXCEPT !.systolic_bp = 240, !.diastolic_bp = 150]
Polycythemic ==
    [BasePatient EXCEPT !.hemoglobin_g_dl = Num(25), !.hematocrit_pct = Num(75)]

\* Oxygen saturation below 90 at intake.
Hypoxic == [BasePatient EXCEPT !.sp_o2_percent = 84]

Patients ==
    {BasePatient, Dehydrated, AnemicSeptic, SamSeptic, SamDehydration, Hypotensive,
     Hypertensive, Polycythemic, Hypoxic}

\* Calls made on one twin: <<infusion_rate_ml_hr, fluid_type, dt_minutes>> and
\* <<fluid, volume_ml, duration_min, return_series>>.
StepInputs ==
    {<<0, "RL", 1>>, <<1000, "RL", 1>>, <<0, "NS", 240>>, <<600, "PRBC", 1>>,
     <<1200, "HALF_NS", 60>>}
RunInputs ==
    {<<"RL", 200, 2, TRUE>>, <<"RL", 600, 2, FALSE>>, <<"NS", 100, 0, FALSE>>,
     <<"COLLOID_ALBUMIN", 0, 1, TRUE>>, <<"D5_NS", 300, 4, FALSE>>,
     <<"PRBC", 20, 3, FALSE>>}

MaxCalls == 2

VARIABLES patient, params, state, last, calls

vars == <<patient, params, state, last, calls>>

\* create_digital_twin on a valid input: the parameters and the T=0 state.
Init ==
    /\ patient \in Patients
    /\ params = initialize_physics_engine(patient)
    /\ state = initialize_simulation_state(patient, params)
    /\ last = [op |-> "create_digital_twin"]
    /\ calls = 0

SimulateSingleStep(infusion_rate_ml_hr, fluid_type, dt_minutes) ==
    /\ calls < MaxCalls
    /\ state' = simulate_single_step(state, params, Num(infusion_rate_ml_hr), fluid_type,
                                     Num(dt_minutes))
    /\ last' = [op |-> "simulate_single_step", pre |-> state,
                infusion_rate_ml_hr |-> Num(infusion_rate_ml_hr),
                fluid_type |-> fluid_type, dt_minutes |-> Num(dt_minutes),
                out |-> state']
    /\ calls' = calls + 1
    /\ UNCHANGED <<patient, params>>

\* Variant of the driver that keeps its trigger list between calls: a run
\* after an earlier run starts with the triggers the earlier run reported.
RunSimulation_SharedTriggers(fluid, volume_ml, duration_min, return_series) ==
    /\ calls < MaxCalls
    /\ last' = [op |-> "run_simulation", pre |-> state, fluid |-> fluid,
                volume_ml |-> volume_ml, duration_min |-> duration_min,
                return_series |-> return_series,
                out |-> LET o == run_simulation(state, params, fluid, volume_ml, duration_min,
                                                return_series)
                        IN  IF o.raised = "" /\ last.op = "run_simulation" /\ last.out.raised = ""
                            THEN [o EXCEPT !.ret.triggers = last.out.ret.triggers \o @]
                            ELSE o]
    /\ state' = IF last'.out.raised = "" THEN last'.out.ret.final_state ELSE state
    /\ calls' = calls + 1
    /\ UNCHANGED <<patient, params>>

\* The caller goes on from the final state of the result; a call that raised
\* leaves it with the state it had.
RunSimulation(fluid, volume_ml, duration_min, return_series) ==
    /\ calls < MaxCalls
    /\ last' = [op |-> "run_simulation", pre |-> state, fluid |-> fluid,
                volume_ml |-> volume_ml, duration_min |-> duration_min,
                return_series |-> return_series,
                out |-> run_simulation(state, params, fluid, volume_ml, duration_min,
                                       return_series)]
    /\ state' = IF last'.out.raised = "" THEN last'.out.ret.final_state ELSE state
    /\ calls' = calls + 1
    /\ UNCHANGED <<patient, params>>

Next ==
    \/ \E i \in StepInputs : SimulateSingleStep(i[1], i[2], i[3])
    \/ \E i \in RunInputs : RunSimulation(i[1], i[2], i[3], i[4])

Spec == Init /\ [][Next]_vars

(***************************************************************************)
(* The factory create_digital_twin and the validation of PatientInput      *)
(* (models.py, __post_init__).  A field that holds something that is not a *)
(* number (a string) is the value NotNumeric.                              *)
(***************************************************************************)
NotNumeric == -2

\* No object (Python None) in a field that otherwise holds a record.
NoneObject == [none |-> TRUE]

BP_CRITICAL == "BP <40 mmHg: Immediate ICU escalation required. Calculator locked."
SPO2_CRITICAL == "SpO2 <80%: Priority is Oxygenation, not Fluid Calculation."
HB_CRITICAL == "Hb <4.0 g/dL: Immediate Transfusion required before Crystalloids."

CriticalMessages == {BP_CRITICAL, SPO2_CRITICAL, HB_CRITICAL}

NumericFields(self) ==
    <<self.age_months, self.weight_kg, self.muac_cm, self.temp_celsius,
      self.hemoglobin_g_dl, self.systolic_bp, self.heart_rate, self.sp_o2_percent,
      self.respiratory_rate_bpm>>

\* The standard range checks and the BMI check; "" when all pass.
RangeError(self) ==
    IF ~(0 <= self.age_months /\ self.age_months <= 216) THEN "Invalid age"
    ELSE IF ~(Frac(1, 2) <= self.weight_kg /\ self.weight_kg <= Num(100))
    THEN "Invalid weight"
    ELSE IF ~(Num(5) <= self.muac_cm /\ self.muac_cm <= Num(35)) THEN "Invalid MUAC"
    ELSE IF ~(Num(25) <= self.temp_celsius /\ self.temp_celsius <= Num(42))
    THEN "Invalid Temp"
    ELSE IF ~(Num(1) <= self.hemoglobin_g_dl /\ self.hemoglobin_g_dl <= Num(25))
    THEN "Invalid Hb"
    ELSE IF ~(30 <= self.systolic_bp /\ self.systolic_bp <= 240) THEN "Invalid BP"
    ELSE IF ~(30 <= self.heart_rate /\ self.heart_rate <= 300) THEN "Invalid HR"
    ELSE IF ~(10 <= self.respiratory_rate_bpm /\ self.respiratory_rate_bpm <= 120)
    THEN "Invalid RR"
    ELSE IF Truthy(self.height_cm)
    THEN LET bmi == Div(self.weight_kg, Mul(self.height_cm \div 100, self.height_cm \div 100))
         IN  IF ~(Num(10) <= bmi /\ bmi <= Num(35)) THEN "Impossible BMI" ELSE ""
    ELSE ""

\* Variant of the validation that runs the range checks before the hard stops.
PostInitError_RangeFirst(self) ==
    IF \E i \in 1..9 : NumericFields(self)[i] = NotNumeric THEN "Field must be numeric"
    ELSE IF RangeError(self) # "" THEN RangeError(self)
    ELSE IF self.systolic_bp < 40 THEN BP_CRITICAL
    ELSE IF self.sp_o2_percent < 80 THEN SPO2_CRITICAL
    ELSE IF self.hemoglobin_g_dl < Num(4) THEN HB_CRITICAL
    ELSE ""

\* PatientInput.__post_init__: the message of the exception it raises, ""
\* when the input is valid.  The checks run in the order of the code.
PostInitError(self) ==
    IF \E i \in 1..9 : NumericFields(self)[i] = NotNumeric THEN "Field must be numeric"
    ELSE IF self.systolic_bp < 40 THEN BP_CRITICAL
    ELSE IF self.sp_o2_percent < 80 THEN SPO2_CRITICAL
    ELSE IF self.hemoglobin_g_dl < Num(4) THEN HB_CRITICAL
    ELSE IF self.sex \notin {"M", "F"} THEN "Sex must be 'M' or 'F'"
    ELSE IF self.diastolic_bp # None /\ ~(20 <= self.diastolic_bp /\ self.diastolic_bp <= 150)
    THEN "Invalid Diastolic BP"
    ELSE IF self.diastolic_bp # None /\ self.diastolic_bp >= self.systolic_bp
    THEN "Diastolic BP must be less than Systolic BP"
    ELSE IF self.respiratory_rate_bpm < 0 \/ self.respiratory_rate_bpm > 200
    THEN "RR is physically impossible"
    ELSE IF self.diagnosis = "DENGUE_SHOCK" /\ self.illness_day = None
    THEN "Illness Day is mandatory for Dengue diagnosis"
    ELSE IF self.diagnosis = "DENGUE_SHOCK" /\ ~(1 <= self.illness_day /\ self.illness_day <= 14)
    THEN "Invalid Illness Day"
    ELSE RangeError(self)

\* The result of a failed construction.
FailedValidation(message) ==
    [success |-> FALSE, patient |-> NoneObject, physics_params |-> NoneObject,
     initial_state |-> NoneObject, errors |-> <<message>>, raised |-> ""]

\* The result of a successful construction.
Validated(input, physics_params) ==
    [success |-> TRUE, patient |-> input, physics_params |-> physics_params,
     initial_state |-> initialize_simulation_state(input, physics_params),
     errors |-> << >>, raised |-> ""]

\* create_digital_twin(data): the ValidationResult; raised names an exception
\* that leaves the function (every handler of the code returns a result).
create_digital_twin(data) ==
    IF data.hemoglobin_g_dl = NotNumeric \/ data.hematocrit_pct = NotNumeric
    THEN FailedValidation("could not convert string to float")
    ELSE IF PostInitError(data) # "" THEN FailedValidation(PostInitError(data))
    ELSE Validated(data, initialize_physics_engine(data))

\* The inputs of the factory: the base patient with each of the listed fields
\* replaced, critical, out of range and ill-typed values among them.
TwinInputs ==
    {[BasePatient EXCEPT !.systolic_bp = sbp, !.sp_o2_percent = spo2,
                         !.hemoglobin_g_dl = hb, !.weight_kg = w, !.sex = sex,
                         !.diastolic_bp = dbp, !.hematocrit_pct = hct] :
        sbp \in {39, 80, 250}, spo2 \in {79, 98},
        hb \in {Num(3), Num(10), Num(30)}, w \in {Num(10), Num(500), NotNumeric},
        sex \in {"M", "X"}, dbp \in {None, 200}, hct \in {Num(35), NotNumeric}}

\* No twin has been built yet.
TwinInit ==
    /\ patient = NoneObject
    /\ params = NoneObject
    /\ state = NoneObject
    /\ last = [op |-> "none"]
    /\ calls = 0

\* A call of the factory; the caller keeps the twin of a successful call.
CreateDigitalTwin(data) ==
    /\ calls < MaxCalls
    /\ last' = [op |-> "create_digital_twin", data |-> data,
                out |-> create_digital_twin(data)]
    /\ patient' = last'.out.patient
    /\ params' = last'.out.physics_params
    /\ state' = last'.out.initial_state
    /\ calls' = calls + 1

TwinNext == \E data \in TwinInputs : CreateDigitalTwin(data)

TwinSpec == TwinInit /\ [][TwinNext]_vars

(***************************************************************************)
(* The clinical scenarios of src/test_clinical_scenarios.py: the base      *)
(* 2-year-old with one finding each, given hour-long boluses.              *)
(***************************************************************************)
\* Hemoglobin 13 g/dL with the default hematocrit of 35 %.
Plethoric == [BasePatient EXCEPT !.hemoglobin_g_dl = Num(13)]
\* test_03: septic shock, no urine for 12 hours.
Anuric ==
    [BasePatient EXCEPT !.diagnosis = "SEPTIC_SHOCK", !.time_since_last_urine_hours = Num(12)]
\* test_07: septic shock with sodium 125.
Hyponatremic ==
    [BasePatient EXCEPT !.diagnosis = "SEPTIC_SHOCK", !.current_sodium = Num(125)]
\* test_01: dengue shock on illness day 5, and its control.
DengueDay5 == [BasePatient EXCEPT !.diagnosis = "DENGUE_SHOCK", !.illness_day = 5]
SevereDehydration == [BasePatient EXCEPT !.diagnosis = "SEVERE_DEHYDRATION"]
\* The same two patients with a measured diastolic pressure.
DengueDay5Diastolic == [DengueDay5 EXCEPT !.diastolic_bp = 50]
\* The dengue patient with a measured diastolic pressure and a brisk refill.
DengueDay5BriskRefill == [DengueDay5Diastolic EXCEPT !.capillary_refill_sec = 1]

ScenarioPatients ==
    {Plethoric, Anuric, Hyponatremic, DengueDay5, SevereDehydration, DengueDay5Diastolic,
     DengueDay5BriskRefill}

\* <<fluid, volume_ml, duration_min, return_series>> and
\* <<infusion_rate_ml_hr, fluid_type, dt_minutes>>.
ScenarioRuns ==
    {<<"RL", 200, 60, TRUE>>, <<"HALF_NS", 200, 60, FALSE>>, <<"RL", 2, 4, TRUE>>}
ScenarioSteps == {<<0, "NS", 1>>}

ScenarioInit ==
    /\ patient \in ScenarioPatients
    /\ params = initialize_physics_engine(patient)
    /\ state = initialize_simulation_state(patient, params)
    /\ last = [op |-> "create_digital_twin"]
    /\ calls = 0

ScenarioNext ==
    \/ \E i \in ScenarioSteps : SimulateSingleStep(i[1], i[2], i[3])
    \/ \E i \in ScenarioRuns : RunSimulation(i[1], i[2], i[3], i[4])

ScenarioSpec == ScenarioInit /\ [][ScenarioNext]_vars

(***************************************************************************)
(* Repeated execution.  SimulationState and PhysiologicalParams are values *)
(* the caller keeps (the step returns a new state with dataclasses.replace *)
(* and changes neither argument), so the caller can execute a call again   *)
(* from the state it passed in.                                            *)
(***************************************************************************)
ReplayRuns == {<<"RL", 200, 2, TRUE>>}
ReplaySteps == {<<1000, "RL", 1>>}

\* The caller takes up the entry state of its most recent call again.
Rewind ==
    /\ last.op \in {"simulate_single_step", "run_simulation"}
    /\ state # last.pre
    /\ state' = last.pre
    /\ UNCHANGED <<patient, params, last, calls>>

ReplayNext ==
    \/ \E i \in ReplaySteps : SimulateSingleStep(i[1], i[2], i[3])
    \/ \E i \in ReplayRuns : RunSimulation(i[1], i[2], i[3], i[4])
    \/ Rewind

ReplaySpec == Init /\ [][ReplayNext]_vars

(***************************************************************************)
(* Safety supervisor (safety.py): the alerts raised for a state of the     *)
(* simulation, evaluated with the parameters and the intake record.        *)
(***************************************************************************)
\* SafetyAlerts(): every flag defaults to False.
SafetyAlerts ==
    [risk_pulmonary_edema |-> FALSE, risk_volume_overload |-> FALSE,
     risk_cerebral_edema |-> FALSE, risk_hypoglycemia |-> FALSE,
     hydrocortisone_needed |-> FALSE, risk_ketoacidosis |-> FALSE,
     sam_heart_warning |-> FALSE, anemia_dilution_warning |-> FALSE,
     dengue_leak_warning |-> FALSE]

\* Sodium concentration (mEq/L) of the fluid given so far.
FluidNaConc(sim_state) == Div(sim_state.total_sodium_load_meq * 1000, sim_state.total_volume_infused_ml)

CerebralEdemaRisk(sim_state, input) ==
    /\ sim_state.total_volume_infused_ml > 0
    /\ \/ input.current_sodium > Num(145) /\ FluidNaConc(sim_state) < Num(130)
       \/ FluidNaConc(sim_state) < input.current_sodium - Num(15)


\* The refractory-shock rule reads the lactate of the intake record.
HydrocortisoneNeeded(sim_state, input) ==
    input.lactate_mmol_l # None /\ input.lactate_mmol_l > Num(7)


IsSamClinical(input) ==
    input.muac_cm < Frac(115, 10) \/ input.diagnosis = "SAM_DEHYDRATION"

KetoacidosisRisk(sim_state, input) ==
    \/ Truthy(input.current_glucose) /\ input.current_glucose > Num(250)
    \/ /\ input.lactate_mmol_l # None
       /\ input.lactate_mmol_l > Num(5)
       /\ sim_state.current_glucose_mg_dl > Num(180)

DengueLeakWarning(sim_state, input) ==
    /\ input.diagnosis = "DENGUE_SHOCK"
    /\ \/ sim_state.current_hematocrit_dynamic > input.hematocrit_pct
       \/ sim_state.q_leak_ml_min > Frac(1, 10)

check_real_time(sim_state, physics_params, input) ==
    [SafetyAlerts EXCEPT
        !.risk_pulmonary_edema = sim_state.p_interstitial_mmHg > Num(5),
        !.risk_volume_overload = sim_state.total_volume_infused_ml > input.weight_kg * 40,
        !.risk_cerebral_edema = CerebralEdemaRisk(sim_state, input),
        !.risk_hypoglycemia = sim_state.current_glucose_mg_dl < Num(54),
        !.sam_heart_warning =
            physics_params.cardiac_contractility < Frac(6, 10) \/ IsSamClinical(input),
        !.risk_ketoacidosis = KetoacidosisRisk(sim_state, input),
        !.dengue_leak_warning = DengueLeakWarning(sim_state, input),
        !.hydrocortisone_needed = HydrocortisoneNeeded(sim_state, input),
        !.anemia_dilution_warning =
            Num(4) < input.hemoglobin_g_dl /\ input.hemoglobin_g_dl < Num(7)]

\* Valid inputs that set the supervisor's context flags apart.
ShockedSeptic ==
    [BasePatient EXCEPT !.diagnosis = "SEPTIC_SHOCK", !.capillary_refill_sec = 5,
                        !.systolic_bp = 40]
LactateMeasured ==
    [BasePatient EXCEPT !.diagnosis = "SEPTIC_SHOCK", !.lactate_mmol_l = Num(8)]
SamByDiagnosis == [BasePatient EXCEPT !.diagnosis = "SAM_DEHYDRATION"]

SupervisorPatients ==
    {BasePatient, ShockedSeptic, LactateMeasured, SamSeptic, SamByDiagnosis, DengueDay5}

SupervisorSteps == {<<0, "NS", 60>>, <<1000, "HALF_NS", 1>>}
SupervisorRuns == {<<"RL", 200, 60, FALSE>>}

SupervisorInit ==
    /\ patient \in SupervisorPatients
    /\ params = initialize_physics_engine(patient)
    /\ state = initialize_simulation_state(patient, params)
    /\ last = [op |-> "create_digital_twin"]
    /\ calls = 0

\* The caller has the state it holds evaluated; the state is not changed.
CheckRealTime ==
    /\ calls < MaxCalls
    /\ last' = [op |-> "check_real_time", pre |-> state,
                out |-> check_real_time(state, params, patient)]
    /\ calls' = calls + 1
    /\ UNCHANGED <<patient, params, state>>

SupervisorNext ==
    \/ \E i \in SupervisorSteps : SimulateSingleStep(i[1], i[2], i[3])
    \/ \E i \in SupervisorRuns : RunSimulation(i[1], i[2], i[3], i[4])
    \/ CheckRealTime

SupervisorSpec == SupervisorInit /\ [][SupervisorNext]_vars

(***************************************************************************)
(* Fluid lookup.  constants.py and the single-file build app.py each carry *)
(* a table and the same get; app.py's table has five entries and its       *)
(* FluidProperties has no potassium field.                                 *)
(***************************************************************************)
AppFluidProps(na, glu, onc, dist, colloid) ==
    [sodium_meq_l |-> na, glucose_g_l |-> glu, oncotic_pressure_mmhg |-> onc,
     vol_distribution_intravascular |-> dist, is_colloid |-> colloid]

APP_SPECS ==
    [f \in {"RL", "NS", "D5_NS", "COLLOID_ALBUMIN", "PRBC"} |->
       CASE f = "RL"      -> AppFluidProps(Num(130), 0, 0, Frac(25, 100), FALSE)
         [] f = "NS"      -> AppFluidProps(Num(154), 0, 0, Frac(25, 100), FALSE)
         [] f = "D5_NS"   -> AppFluidProps(Num(154), Num(50), 0, Frac(20, 100), FALSE)
         [] f = "COLLOID_ALBUMIN" -> AppFluidProps(Num(145), 0, Num(20), Num(1), TRUE)
         [] f = "PRBC"    -> AppFluidProps(Num(140), 0, Num(25), Num(1), TRUE)]

\* Variant of the lookup without the default: a missing tag yields None.
APP_FLUID_LIBRARY_get_NoDefault(fluid_enum) ==
    IF fluid_enum \in DOMAIN APP_SPECS THEN APP_SPECS[fluid_enum] ELSE NoneObject

APP_FLUID_LIBRARY_get(fluid_enum) ==
    IF fluid_enum \in DOMAIN APP_SPECS THEN APP_SPECS[fluid_enum] ELSE APP_SPECS["RL"]

\* Tags handed to the lookup: members of either build's FluidType, an enum
\* value passed as a plain string, and a tag neither build knows.
LibraryTags == {"RL", "PRBC", "HALF_NS", "HALF_STRENGTH", "ringer_lactate", "BOGUS"}
LibraryPatients == {BasePatient, AnemicSeptic}
LibraryRates == {600}

LibraryInit ==
    /\ patient \in LibraryPatients
    /\ params = initialize_physics_engine(patient)
    /\ state = initialize_simulation_state(patient, params)
    /\ last = [op |-> "create_digital_twin"]
    /\ calls = 0

FluidLibraryGet(fluid_enum) ==
    /\ calls < MaxCalls
    /\ last' = [op |-> "FLUID_LIBRARY.get", build |-> "backend", fluid_enum |-> fluid_enum,
                out |-> FLUID_LIBRARY_get(fluid_enum)]
    /\ calls' = calls + 1
    /\ UNCHANGED <<patient, params, state>>

AppFluidLibraryGet(fluid_enum) ==
    /\ calls < MaxCalls
    /\ last' = [op |-> "FLUID_LIBRARY.get", build |-> "app", fluid_enum |-> fluid_enum,
                out |-> APP_FLUID_LIBRARY_get(fluid_enum)]
    /\ calls' = calls + 1
    /\ UNCHANGED <<patient, params, state>>

LibraryNext ==
    \/ \E tag \in LibraryTags : FluidLibraryGet(tag)
    \/ \E tag \in LibraryTags : AppFluidLibraryGet(tag)
    \/ \E tag \in LibraryTags, r \in LibraryRates : SimulateSingleStep(r, tag, 1)

LibrarySpec == LibraryInit /\ [][LibraryNext]_vars

(***************************************************************************)
(* The two evaluations of the Frank-Starling curve: the calibrator's while *)
(* it solves for SVR, the simulator's in every evaluation of the fluxes.   *)
(***************************************************************************)
\* Preload ratios from 0.40 to 2.40 in steps of 0.05.
CurveRatios == {Frac(k, 20) : k \in 8..48}
CurvePatients == {BasePatient, SamSeptic, AnemicSeptic}

CurveInit ==
    /\ patient \in CurvePatients
    /\ params = initialize_physics_engine(patient)
    /\ state = initialize_simulation_state(patient, params)
    /\ last = [op |-> "create_digital_twin"]
    /\ calls = 0

CalibratorFrankStarling(preload_ratio) ==
    /\ calls < MaxCalls
    /\ last' = [op |-> "initialize_physics_engine.preload_efficiency",
                preload_ratio |-> preload_ratio,
                out |-> CalibratorPreloadEfficiency(preload_ratio)]
    /\ calls' = calls + 1
    /\ UNCHANGED <<patient, params, state>>

SimulatorFrankStarling(preload_ratio) ==
    /\ calls < MaxCalls
    /\ last' = [op |-> "_calculate_derivatives.preload_efficiency",
                preload_ratio |-> preload_ratio,
                out |-> PreloadEfficiency(preload_ratio, params)]
    /\ calls' = calls + 1
    /\ UNCHANGED <<patient, params, state>>

CurveNext ==
    \/ \E r \in CurveRatios : CalibratorFrankStarling(r)
    \/ \E r \in CurveRatios : SimulatorFrankStarling(r)

CurveSpec == CurveInit /\ [][CurveNext]_vars

(***************************************************************************)
(* The single-file build app.py.  It carries its own calibrator, state     *)
(* initializer, flux evaluation and step; the helpers it shares unchanged  *)
(* with the backend (_calculate_bsa, _calculate_compartment_volumes,       *)
(* _calculate_renal_function, _calculate_insensible_loss,                  *)
(* _calculate_safe_rr_limit) are the operators above.  Its SimulationState *)
(* has no sodium, potassium, hemoglobin or lactate field.                  *)
(***************************************************************************)
app_calculate_hemodynamics(input) ==
    LET c1 == IF input.diagnosis = "SAM_DEHYDRATION" \/ input.muac_cm < Frac(115, 10)
              THEN Frac(5, 10) ELSE SC
        contractility == IF input.diagnosis = "SEPTIC_SHOCK" THEN Mul(c1, Frac(7, 10)) ELSE c1
        hct == input.hematocrit_pct
        raw_visc == IF hct < Num(20) THEN Frac(5, 10) + Mul(Frac(2, 100), hct)
                    ELSE Pow25(hct \div 45)
        viscosity == Max(Frac(7, 10), Min(raw_visc, Num(3)))
        age_svr == IF input.age_months < 1 THEN Num(1800)
                   ELSE IF input.age_months < 12 THEN Num(1400)
                   ELSE Num(1000)
        base_svr == Mul(age_svr, Sqrt(Div(Num(10), input.weight_kg)))
        temp_factor == IF input.temp_celsius < Num(36) THEN Frac(15, 10)
                       ELSE IF input.temp_celsius > Frac(385, 10) THEN Frac(8, 10)
                       ELSE SC
    IN  [contractility |-> contractility,
         svr |-> Mul(Mul(base_svr, viscosity), temp_factor),
         viscosity |-> viscosity]

app_initialize_physics_engine(input) ==
    LET bsa == _calculate_bsa(input.weight_kg, input.height_cm)
        vols == _calculate_compartment_volumes(input)
        hemo == app_calculate_hemodynamics(input)
        dengue == input.diagnosis = "DENGUE_SHOCK"
        septic == input.diagnosis = "SEPTIC_SHOCK"
        sigma == IF septic THEN Frac(4, 10)
                 ELSE IF dengue /\ input.illness_day <= 3 THEN Frac(9, 10)
                 ELSE IF dengue /\ input.illness_day <= 6 THEN Frac(3, 10)
                 ELSE IF dengue THEN Frac(7, 10)
                 ELSE Frac(9, 10)
        k_f_base == IF septic THEN Frac(2, 100)
                    ELSE IF dengue /\ input.illness_day > 3 /\ input.illness_day <= 6
                         THEN Frac(25, 1000)
                    ELSE Frac(1, 100)
        est0 == IF input.muac_cm < Frac(115, 10) THEN Frac(25, 10)
                ELSE IF input.muac_cm > Frac(125, 10) THEN Num(4)
                ELSE Frac(25, 10) + Mul(input.muac_cm - Frac(115, 10), Frac(15, 10))
        est1 == IF septic THEN Min(Mul(est0, Frac(85, 100)), Frac(35, 10)) ELSE est0
        albumin == IF input.plasma_albumin_g_dl = None THEN est1
                   ELSE input.plasma_albumin_g_dl
        pi_plasma == Mul(Frac(21, 10), albumin)
                     + Mul(Frac(16, 100), Mul(albumin, albumin))
                     + Mul(Frac(9, 1000), Mul(Mul(albumin, albumin), albumin))
        burn0 == IF input.age_months < 1 THEN Num(5) ELSE Num(3)
        burn1 == IF septic THEN Mul(burn0, Frac(15, 10)) ELSE burn0
        burn2 == IF input.age_months < 3 THEN Mul(burn1, Frac(12, 10)) ELSE burn1
        glucose_burn == IF Truthy(input.lactate_mmol_l) /\ input.lactate_mmol_l > Num(4)
                        THEN Mul(burn2, Frac(15, 10)) ELSE burn2
        contractility == IF Truthy(input.platelet_count) /\ input.platelet_count < 20000
                         THEN Mul(hemo.contractility, Frac(5, 10))
                         ELSE hemo.contractility
        is_sam == input.muac_cm < Frac(115, 10)
    IN  [tbw_fraction |-> vols.tbw_fraction,
         v_blood_normal_l |-> vols.v_blood,
         v_inter_normal_l |-> vols.v_interstitial,
         cardiac_contractility |-> contractility,
         heart_stiffness_k |-> Num(4),
         svr_resistance |-> hemo.svr,
         capillary_filtration_k |-> k_f_base,
         blood_viscosity_eta |-> hemo.viscosity,
         tissue_compliance_factor |-> IF is_sam THEN Frac(5, 10) ELSE SC,
         renal_maturity_factor |->
             _calculate_renal_function(input.age_months, input.time_since_last_urine_hours),
         max_cardiac_output_l_min |-> Mul(input.weight_kg, Frac(15, 100)),
         venous_compliance_ml_mmhg |-> Mul(input.weight_kg, Frac(15, 10)),
         osmotic_conductance_k |-> Frac(1, 10),
         lymphatic_drainage_capacity_ml_min |-> Mul(input.weight_kg, Frac(3, 100)),
         intracellular_sodium_bias |-> IF is_sam THEN Frac(12, 10) ELSE SC,
         target_map_mmhg |-> IF input.age_months < 12 THEN Num(55) ELSE Num(65),
         target_heart_rate_upper_limit |-> IF input.age_months > 12 THEN 160 ELSE 180,
         target_respiratory_rate_limit |->
             _calculate_safe_rr_limit(input.age_months, input.respiratory_rate_bpm),
         insensible_loss_ml_min |-> _calculate_insensible_loss(input, bsa),
         plasma_oncotic_pressure_mmhg |-> pi_plasma,
         reflection_coefficient_sigma |-> sigma,
         glucose_utilization_mg_kg_min |-> glucose_burn,
         albumin_uncertainty_g_dl |->
             IF input.plasma_albumin_g_dl = None THEN Frac(8, 10) ELSE 0,
         weight_kg |-> input.weight_kg,
         interstitial_compliance_ml_mmhg |-> IF is_sam THEN Num(50) ELSE Num(100),
         afterload_sensitivity |->
             IF is_sam \/ input.temp_celsius < Num(36) THEN Frac(15, 10) ELSE SC,
         baseline_capillary_pressure_mmhg |->
             IF input.capillary_refill_sec > 4 THEN Num(15)
             ELSE IF input.capillary_refill_sec > 2 THEN Num(20)
             ELSE Num(25),
         optimal_preload_ml |-> Mul(vols.v_blood, Frac(115, 100))]

\* The T=0 state (for the inputs drawn here the intracellular volume is far
\* above the 0.1 L below which the initializer raises).
app_initialize_simulation_state(input, physics_params) ==
    LET vols == _calculate_compartment_volumes(input)
        deficit_factor == DeficitFactor(input)
        vol_loss_ml == Mul(input.weight_kg * 1000, deficit_factor)
        current_v_inter == Max(physics_params.v_inter_normal_l - Mul(vol_loss_ml, Frac(75, 100)),
                               Num(50))
        current_v_blood == Max(physics_params.v_blood_normal_l - Mul(vol_loss_ml, Frac(25, 100)),
                               Mul(physics_params.v_blood_normal_l, Frac(4, 10)))
        sbp == Num(input.systolic_bp)
        is_vasodilated == input.diagnosis \in {"SEPTIC_SHOCK", "DENGUE_SHOCK"}
        estimated_dbp == Mul(sbp, IF is_vasodilated THEN Frac(4, 10) ELSE Frac(6, 10))
        map_est == IF Truthy(input.diastolic_bp)
                   THEN Num(input.diastolic_bp) + Num(input.systolic_bp - input.diastolic_bp) \div 3
                   ELSE estimated_dbp + (sbp - estimated_dbp) \div 3
    IN  [time_minutes |-> 0,
         v_blood_current_l |-> current_v_blood,
         v_interstitial_current_l |-> Max(current_v_inter, Num(100)),
         v_intracellular_current_l |-> vols.v_intracellular,
         map_mmHg |-> map_est,
         cvp_mmHg |-> IF deficit_factor > 0 THEN Num(2) ELSE Num(5),
         pcwp_mmHg |-> Num(4),
         p_interstitial_mmHg |-> IF deficit_factor > 0 THEN -Num(2) ELSE 0,
         q_infusion_ml_min |-> 0,
         q_leak_ml_min |-> 0,
         q_urine_ml_min |-> 0,
         q_lymph_ml_min |-> 0,
         q_osmotic_shift_ml_min |-> 0,
         total_volume_infused_ml |-> 0,
         total_sodium_load_meq |-> 0,
         current_hematocrit_dynamic |-> input.hematocrit_pct,
         current_weight_dynamic_kg |-> input.weight_kg,
         q_ongoing_loss_ml_min |-> (input.weight_kg * input.ongoing_losses_severity) \div 60,
         q_insensible_loss_ml_min |-> physics_params.insensible_loss_ml_min,
         current_glucose_mg_dl |-> IF Truthy(input.current_glucose) THEN input.current_glucose
                                   ELSE Num(90),
         cumulative_bolus_count |-> 0,
         time_since_last_bolus_min |-> Num(999)]

app_calculate_derivatives(sim_state, physics_params, current_fluid, infusion_rate_ml_min) ==
    LET preload_ratio == Div(sim_state.v_blood_current_l, physics_params.optimal_preload_ml)
        preload_efficiency ==
            IF preload_ratio < Frac(5, 10) THEN preload_ratio * 2
            ELSE IF preload_ratio <= Frac(12, 10) THEN SC
            ELSE Max(Frac(4, 10), SC - Mul(preload_ratio - Frac(12, 10), Frac(15, 10)))
        normalized_svr == physics_params.svr_resistance \div 1000
        afterload_factor ==
            Div(SC, SC + Mul(normalized_svr - SC, physics_params.afterload_sensitivity))
        co_l_min == Mul(Mul(Mul(physics_params.max_cardiac_output_l_min,
                                physics_params.cardiac_contractility),
                            preload_efficiency), afterload_factor)
        derived_map == Max(Num(30),
                           Min(Mul(co_l_min, physics_params.svr_resistance) \div 80
                                   + sim_state.cvp_mmHg,
                               Num(160)))
        p_capillary == Mul(physics_params.baseline_capillary_pressure_mmhg,
                           Div(derived_map, physics_params.target_map_mmhg))
        dilution == Div(physics_params.v_blood_normal_l, sim_state.v_blood_current_l)
        pi0 == Mul(physics_params.plasma_oncotic_pressure_mmhg, dilution)
        current_pi_c == IF current_fluid.is_colloid THEN pi0 + Num(2) ELSE pi0
        hydrostatic_net == p_capillary - sim_state.p_interstitial_mmHg
        oncotic_net == Mul(physics_params.reflection_coefficient_sigma, current_pi_c - Num(5))
        effective_kf ==
            IF current_fluid.is_colloid /\ physics_params.reflection_coefficient_sigma < Frac(6, 10)
            THEN Mul(physics_params.capillary_filtration_k, Frac(5, 10))
            ELSE physics_params.capillary_filtration_k
        lymph_drive == Min((sim_state.p_interstitial_mmHg + Num(2)) \div 3, Num(2))
        q_lymph == IF sim_state.p_interstitial_mmHg > -Num(2)
                   THEN Mul(physics_params.lymphatic_drainage_capacity_ml_min,
                            Max(Frac(5, 10), lymph_drive))
                   ELSE 0
        perfusion_p == derived_map - sim_state.cvp_mmHg
        q_urine == IF perfusion_p < Num(35) THEN 0
                   ELSE Mul(Mul(perfusion_p - Num(35), Frac(5, 100)),
                            physics_params.renal_maturity_factor)
        ecf_volume_l == sim_state.v_blood_current_l + sim_state.v_interstitial_current_l
        tonic_diff == Num(140) - current_fluid.sodium_meq_l
        osm0 == Mul(Mul(Mul(infusion_rate_ml_min, tonic_diff),
                        physics_params.osmotic_conductance_k),
                    physics_params.intracellular_sodium_bias) \div 1000
        q_osmotic == IF infusion_rate_ml_min > 0 /\ ecf_volume_l > 0
                     THEN (IF current_fluid.glucose_g_l > 0
                           THEN osm0 + Mul(infusion_rate_ml_min, Frac(5, 10))
                           ELSE osm0)
                     ELSE 0
    IN  [q_leak |-> Max(0, Mul(effective_kf, hydrostatic_net - oncotic_net)),
         q_urine |-> q_urine, q_lymph |-> q_lymph, q_osmotic |-> q_osmotic,
         derived_map |-> derived_map, derived_cvp |-> sim_state.cvp_mmHg]

\* The integrator of app.py from the fluxes on: it builds a new
\* SimulationState, and its last field is the bolus timer.
AppStepFromFluxes(sim_state, physics_params, fluid_props, rate_min, dt_minutes, fluxes) ==
    LET vol_dist == fluid_props.vol_distribution_intravascular
        dv_blood == Mul(Mul(rate_min, vol_dist) - fluxes.q_leak - fluxes.q_urine
                            + fluxes.q_lymph, dt_minutes)
                    - Mul(Mul(sim_state.q_ongoing_loss_ml_min, Frac(25, 100)), dt_minutes)
        new_v_blood == sim_state.v_blood_current_l + dv_blood
        dv_inter == Mul(fluxes.q_leak - fluxes.q_lymph + Mul(rate_min, SC - vol_dist),
                        dt_minutes)
                    - Mul(Mul(sim_state.q_ongoing_loss_ml_min, Frac(75, 100)), dt_minutes)
                    - Mul(sim_state.q_insensible_loss_ml_min, dt_minutes)
                    - Mul(fluxes.q_osmotic, dt_minutes)
        new_v_inter == sim_state.v_interstitial_current_l + dv_inter
        new_v_icf == sim_state.v_intracellular_current_l + Mul(fluxes.q_osmotic, dt_minutes)
        vol_excess == new_v_blood - physics_params.v_blood_normal_l
        new_cvp == Max(SC, Min(Num(3) + Div(vol_excess, physics_params.venous_compliance_ml_mmhg),
                               Num(25)))
        inter_excess == new_v_inter - physics_params.v_inter_normal_l
        new_p_inter == IF inter_excess > 0
                       THEN Div(inter_excess, physics_params.interstitial_compliance_ml_mmhg)
                       ELSE -Num(2)
        safe_v_blood == Max(new_v_blood, Num(100))
        new_hct == Max(Num(5),
                       Min(Div(Mul(sim_state.v_blood_current_l,
                                   sim_state.current_hematocrit_dynamic), safe_v_blood),
                           Num(70)))
        glucose_in_mg == Mul(Mul(rate_min, fluid_props.glucose_g_l), dt_minutes)
        glucose_burn_mg == Mul(Mul(physics_params.glucose_utilization_mg_kg_min,
                                   physics_params.weight_kg), dt_minutes)
        ecf_vol == new_v_blood + new_v_inter
        g0 == IF ecf_vol > 0
              THEN sim_state.current_glucose_mg_dl
                       + DivScaled(glucose_in_mg - glucose_burn_mg, ecf_vol, 2)
              ELSE sim_state.current_glucose_mg_dl
    IN  [time_minutes |-> sim_state.time_minutes + dt_minutes,
         v_blood_current_l |-> new_v_blood,
         v_interstitial_current_l |-> new_v_inter,
         v_intracellular_current_l |-> new_v_icf,
         map_mmHg |-> fluxes.derived_map,
         cvp_mmHg |-> new_cvp,
         pcwp_mmHg |-> Mul(new_cvp, Frac(12, 10)),
         p_interstitial_mmHg |-> new_p_inter,
         q_infusion_ml_min |-> rate_min,
         q_leak_ml_min |-> fluxes.q_leak,
         q_urine_ml_min |-> fluxes.q_urine,
         q_lymph_ml_min |-> fluxes.q_lymph,
         q_osmotic_shift_ml_min |-> fluxes.q_osmotic,
         total_volume_infused_ml |-> sim_state.total_volume_infused_ml + Mul(rate_min, dt_minutes),
         total_sodium_load_meq |->
             sim_state.total_sodium_load_meq
                 + Mul(MulDiv(rate_min, fluid_props.sodium_meq_l, 1000), dt_minutes),
         current_hematocrit_dynamic |-> new_hct,
         current_weight_dynamic_kg |->
             sim_state.current_weight_dynamic_kg
                 + Mul(rate_min - fluxes.q_urine, dt_minutes) \div 1000,
         current_glucose_mg_dl |-> Max(Num(10), Min(g0, Num(800))),
         q_ongoing_loss_ml_min |-> sim_state.q_ongoing_loss_ml_min,
         q_insensible_loss_ml_min |-> sim_state.q_insensible_loss_ml_min,
         cumulative_bolus_count |-> sim_state.cumulative_bolus_count,
         time_since_last_bolus_min |-> sim_state.time_since_last_bolus_min + dt_minutes]

app_simulate_single_step(sim_state, physics_params, infusion_rate_ml_hr, fluid_type, dt_minutes) ==
    AppStepFromFluxes(sim_state, physics_params, APP_FLUID_LIBRARY_get(fluid_type),
                      infusion_rate_ml_hr \div 60, dt_minutes,
                      app_calculate_derivatives(sim_state, physics_params,
                                                APP_FLUID_LIBRARY_get(fluid_type),
                                                infusion_rate_ml_hr \div 60))

AppInit ==
    /\ patient \in {BasePatient, Dehydrated, SamSeptic, DengueDay5}
    /\ params = app_initialize_physics_engine(patient)
    /\ state = app_initialize_simulation_state(patient, params)
    /\ last = [op |-> "create_digital_twin"]
    /\ calls = 0

AppSimulateSingleStep(infusion_rate_ml_hr, fluid_type, dt_minutes) ==
    /\ calls < MaxCalls
    /\ state' = app_simulate_single_step(state, params, Num(infusion_rate_ml_hr), fluid_type,
                                         Num(dt_minutes))
    /\ last' = [op |-> "simulate_single_step", pre |-> state,
                infusion_rate_ml_hr |-> Num(infusion_rate_ml_hr),
                fluid_type |-> fluid_type, dt_minutes |-> Num(dt_minutes),
                out |-> state']
    /\ calls' = calls + 1
    /\ UNCHANGED <<patient, params>>

AppNext ==
    \E i \in {<<0, "RL", 1>>, <<600, "RL", 1>>, <<5, "NS", 1>>, <<600, "D5_NS", 5>>,
              <<0, "NS", 60>>} :
        AppSimulateSingleStep(i[1], i[2], i[3])

AppSpec == AppInit /\ [][AppNext]_vars

(***************************************************************************)
(* Properties.  last records the most recent call: its entry state (pre),  *)
(* its arguments and what it returned (out).                               *)
(***************************************************************************)
StepCalled == last.op = "simulate_single_step"
RunCalled == last.op = "run_simulation"

\* Every simulate_single_step call of the most recent operation, as
\* <<entry state, returned state, dt>>: the call itself, or the steps a run made
\* (the entry state of a later minute is the state the minute before returned;
\* REASSESS changes only its cumulative_bolus_count).
StepCalls ==
    IF StepCalled
    THEN <<[pre |-> last.pre, out |-> last.out, dt |-> last.dt_minutes,
            fluid |-> last.fluid_type]>>
    ELSE IF RunCalled
    THEN [i \in 1..Len(last.out.posts) |->
            [pre |-> IF i = 1 THEN last.pre ELSE last.out.posts[i - 1],
             out |-> last.out.posts[i], dt |-> Num(1), fluid |-> last.fluid]]
    ELSE << >>

StepCallSet == {StepCalls[i] : i \in 1..Len(StepCalls)}

TotalWater(s) ==
    s.v_blood_current_l + s.v_interstitial_current_l + s.v_intracellular_current_l

\* (rate - q_urine - q_insensible - q_ongoing_loss) * dt, in ml.
NetInflow(c) ==
    Mul(c.out.q_infusion_ml_min - c.out.q_urine_ml_min - c.pre.q_insensible_loss_ml_min
        - c.pre.q_ongoing_loss_ml_min, c.dt)

\* Distance of the change of total water from the net inflow.
ConservationError(c) == Abs((TotalWater(c.out) - TotalWater(c.pre)) - NetInflow(c))

\* The truncation of the fixed-point products of one step: 0.001 ml per
\* minute of dt, plus 0.001 ml.
RoundingSlack(c) == Mul(Frac(1, 1000), c.dt + SC)

AboveFloors(s) ==
    /\ s.v_blood_current_l > Mul(params.v_blood_normal_l, Frac(4, 10))
    /\ s.v_interstitial_current_l > Num(100)
    /\ s.v_intracellular_current_l > Num(100)

\* C1 as claimed: every simulate_single_step call changes v_blood +
\* v_interstitial + v_intracellular by (rate - q_urine - q_insensible -
\* q_ongoing_loss) * dt (to the rounding of the arithmetic).
C1_MassConservation ==
    \A c \in StepCallSet : ConservationError(c) <= RoundingSlack(c)

\* C1 amended: a simulate_single_step call that returns all three volumes
\* above their floors changes their sum by (rate - q_urine - q_insensible -
\* q_ongoing_loss) * dt (to the rounding of the arithmetic).
C1_MassConservationAboveFloors ==
    \A c \in StepCallSet : AboveFloors(c.out) => ConservationError(c) <= RoundingSlack(c)

\* C1 witness: an infusing step that returned volumes above the floors and
\* changed the total water.
C1_Witness ==
    /\ StepCalled
    /\ last.infusion_rate_ml_hr > 0
    /\ AboveFloors(last.out)
    /\ TotalWater(last.out) # TotalWater(last.pre)

\* C2 as claimed: 30 <= map_mmHg <= 160 in the T=0 state and in every state
\* reached from it by simulate_single_step calls.
C2_MapInRange == Num(30) <= state.map_mmHg /\ state.map_mmHg <= Num(160)

C4_VolumeFloors ==
    \A c \in StepCallSet :
        /\ c.out.v_blood_current_l >= Mul(params.v_blood_normal_l, Frac(4, 10))
        /\ c.out.v_interstitial_current_l >= Num(100)
        /\ c.out.v_intracellular_current_l >= Num(100)

\* C4 witness: a step whose losses took the blood volume down to its floor.
C4_Witness ==
    /\ StepCalled
    /\ last.pre.v_blood_current_l > Mul(params.v_blood_normal_l, Frac(4, 10))
    /\ last.out.v_blood_current_l = Mul(params.v_blood_normal_l, Frac(4, 10))

\* C5: after every simulate_single_step, 1 <= cvp <= 25, p_interstitial >= -2,
\* 110 <= sodium <= 180, 1.5 <= potassium <= 9, 10 <= glucose <= 800 and
\* 0.1 <= lactate <= 25.
C5_ClampedRanges ==
    \A c \in StepCallSet :
        /\ Num(1) <= c.out.cvp_mmHg /\ c.out.cvp_mmHg <= Num(25)
        /\ c.out.p_interstitial_mmHg >= -Num(2)
        /\ Num(110) <= c.out.current_sodium /\ c.out.current_sodium <= Num(180)
        /\ Frac(15, 10) <= c.out.current_potassium /\ c.out.current_potassium <= Num(9)
        /\ Num(10) <= c.out.current_glucose_mg_dl /\ c.out.current_glucose_mg_dl <= Num(800)
        /\ Frac(1, 10) <= c.out.current_lactate_mmol_l
        /\ c.out.current_lactate_mmol_l <= Num(25)

\* C5 witness: a step that took the blood volume so far below normal that the
\* venous pressure sits on its lower clamp, after a state where it did not.
C5_Witness ==
    /\ StepCalled
    /\ last.pre.cvp_mmHg > Num(1)
    /\ last.out.cvp_mmHg = Num(1)

\* The run returned a dict (it did not raise).
RunReturned == RunCalled /\ last.out.raised = ""

\* The run got past the pre-run guard (it was not refused).
RunEntered == RunCalled /\ ~PreExistingCongestion(last.pre)

Crosses(s) == EdemaStop(s) \/ HemodilutionStop(s)

Triggers(seq) == {seq[i] : i \in 1..Len(seq)}

\* C6 as claimed, for the runs the pre-run guard lets through: the run stops at
\* the first minute whose post-step state has p_interstitial > 5 or
\* hematocrit < 20, runs no step after it and reports success = false with the
\* STOP / CRITICAL trigger; with no such state it runs exactly duration_min
\* steps and reports success = true, whatever the volume warning says.
C6_HardStops ==
    RunEntered =>
        LET posts == last.out.posts
            n == Len(posts)
        IN  /\ last.out.raised = ""
            /\ \A i \in 1..(n - 1) : ~Crosses(posts[i])
            /\ IF n > 0 /\ Crosses(posts[n])
               THEN /\ last.out.ret.success = FALSE
                    /\ EdemaStop(posts[n]) => STOP_EDEMA \in Triggers(last.out.ret.triggers)
                    /\ ~EdemaStop(posts[n]) =>
                           CRITICAL_HEMODILUTION \in Triggers(last.out.ret.triggers)
               ELSE /\ n = last.duration_min
                    /\ last.out.ret.success = TRUE

\* C7: a run entered with p_interstitial >= 4 makes no step and returns the
\* entry state unchanged as final state, the pre-existing-congestion STOP
\* trigger, success = false, MAP rise 0 and leak fraction 0.
C7_PreRunGuard ==
    (RunCalled /\ last.pre.p_interstitial_mmHg >= Num(4)) =>
        /\ last.out.raised = ""
        /\ last.out.posts = << >>
        /\ last.out.ret.final_state = last.pre
        /\ last.out.ret.triggers = <<STOP_CONGESTION>>
        /\ last.out.ret.success = FALSE
        /\ last.out.ret.predicted_map_rise = 0
        /\ last.out.ret.fluid_leaked_percentage = 0
        /\ state = last.pre

\* C7 witness: a run was asked for in a state that a completed earlier run
\* left congested.
C7_Witness ==
    /\ RunCalled
    /\ last.pre.p_interstitial_mmHg >= Num(4)
    /\ last.pre.time_minutes > 0
    /\ last.volume_ml > 0

\* The multiples of 10 ml/kg that the infused total has reached.
ThresholdsReached(s) == s.total_volume_infused_ml \div (params.weight_kg * 10)

\* The minutes of the last run in which the total reached another multiple.
CrossingMinutes ==
    {i \in 1..Len(StepCalls) :
        ThresholdsReached(StepCalls[i].out) > ThresholdsReached(StepCalls[i].pre)}

ReassessCount(seq) == Cardinality({i \in 1..Len(seq) : seq[i] = REASSESS})

\* C8 as claimed: a completed run reports one REASSESS trigger for each
\* minute in which the cumulative infused volume reached another multiple of
\* 10 ml/kg, also when it started from the final state of an earlier run.
C8_ReassessPerThreshold ==
    (RunReturned /\ RunEntered /\ last.out.ret.success) =>
        ReassessCount(last.out.ret.triggers) = Cardinality(CrossingMinutes)

ResultKeys ==
    {"final_state", "triggers", "trajectory", "predicted_map_rise",
     "fluid_leaked_percentage", "success"}

\* C9 as claimed: every result run_simulation returns carries the final
\* state, the triggers, a trajectory, the MAP rise, the leak fraction and the
\* success indicator.
C9_ResultShape == RunReturned => ResultKeys \subseteq DOMAIN last.out.ret

\* C10 as claimed: no call of run_simulation (volume_ml >= 0, duration_min >=
\* 0) ends in an arithmetic error.
C10_NoArithmeticFailure == RunCalled => last.out.raised = ""

\* The factory was called on an input that the hard stops of the validation
\* apply to.
TwinCalled == last.op = "create_digital_twin" /\ "data" \in DOMAIN last
IsWellTyped(data) ==
    /\ \A i \in 1..9 : NumericFields(data)[i] # NotNumeric
    /\ data.hematocrit_pct # NotNumeric
IsCritical(data) ==
    \/ (data.systolic_bp # NotNumeric /\ data.systolic_bp < 40)
    \/ (data.sp_o2_percent # NotNumeric /\ data.sp_o2_percent < 80)
    \/ (data.hemoglobin_g_dl # NotNumeric /\ data.hemoglobin_g_dl < Num(4))
RejectedAsCritical(out) ==
    /\ out.raised = ""
    /\ out.success = FALSE
    /\ out.patient = NoneObject
    /\ out.physics_params = NoneObject
    /\ out.initial_state = NoneObject
    /\ Len(out.errors) = 1
    /\ out.errors[1] \in CriticalMessages

\* C11 as claimed: every call of create_digital_twin returns (nothing is
\* raised), and for every input with systolic BP < 40, SpO2 < 80 or
\* hemoglobin < 4 the result has success = false, no patient, params or
\* initial state, and a critical-condition message as its error.
C11_CriticalRejected ==
    TwinCalled =>
        /\ last.out.raised = ""
        /\ IsCritical(last.data) => RejectedAsCritical(last.out)

\* C11 amended: the same for every input whose fields hold values of their
\* declared types.
C11_CriticalRejectedWellTyped ==
    TwinCalled =>
        /\ last.out.raised = ""
        /\ (IsCritical(last.data) /\ IsWellTyped(last.data)) => RejectedAsCritical(last.out)

\* C11 witness: a critical input whose other fields are out of range as well
\* was rejected with the critical message.
C11_Witness ==
    /\ TwinCalled
    /\ last.data.systolic_bp < 40
    /\ last.data.weight_kg = Num(500)
    /\ last.data.sex = "X"
    /\ last.out.errors = <<BP_CRITICAL>>

\* Hemoglobin mass in circulation, g: concentration (g/dL) * volume (dL).
HbMass(s) == MulDiv(s.current_hemoglobin, s.v_blood_current_l, 100)

\* The hemoglobin a step infuses, g: 22 g/dL of the volume given when the
\* fluid is PRBC, nothing otherwise.
HbInflux(c) ==
    IF c.fluid = "PRBC" THEN MulDiv(Num(22), Mul(c.out.q_infusion_ml_min, c.dt), 100) ELSE 0

HbBalanceError(c) == Abs(HbMass(c.out) - (HbMass(c.pre) + HbInflux(c)))

\* The returned concentration is cut to 1e-4 g/dL: 0.001 g per litre of blood.
HbSlack(c) == Frac(1, 1000) + c.out.v_blood_current_l \div (1000 * 1000)

HbInsideClamp(s) == Num(2) < s.current_hemoglobin /\ s.current_hemoglobin < Num(26)

\* C12 as claimed: over every step hemoglobin * v_blood grows by 22 g/dL
\* times the volume infused when the fluid is PRBC and stays the same for
\* every other fluid (to the rounding of the arithmetic).
C12_HemoglobinMassBalance ==
    \A c \in StepCallSet : HbBalanceError(c) <= HbSlack(c)

\* C12 amended: the same for every step that returns a hemoglobin strictly
\* between the clamp limits 2 and 26 g/dL.
C12_HemoglobinMassBalanceInsideClamp ==
    \A c \in StepCallSet : HbInsideClamp(c.out) => HbBalanceError(c) <= HbSlack(c)

\* C12 witness: a PRBC step that raised the hemoglobin mass, with the
\* returned hemoglobin inside the clamp.
C12_Witness ==
    /\ StepCalled
    /\ last.fluid_type = "PRBC"
    /\ last.infusion_rate_ml_hr > 0
    /\ HbInsideClamp(last.out)
    /\ HbMass(last.out) > HbMass(last.pre)

\* A run that infused a crystalloid (neither colloid nor PRBC) at positive
\* rate from a T=0 state.
CrystalloidRunFromT0 ==
    /\ RunReturned
    /\ RunEntered
    /\ ~FLUID_LIBRARY_get(last.fluid).is_colloid
    /\ last.volume_ml > 0
    /\ last.pre.time_minutes = 0

CallArguments(l) == [k \in DOMAIN l \ {"out"} |-> l[k]]

\* A call is executed with the operation, entry state and arguments of the
\* call recorded before it.
SameCallAgain ==
    /\ calls' = calls + 1
    /\ DOMAIN last' = DOMAIN last
    /\ CallArguments(last') = CallArguments(last)

AtT0 == calls = 0 /\ last.op = "create_digital_twin" /\ "data" \notin DOMAIN last

\* The CVP the claim has the T=0 state take: the calibrator's target, at
\* least 10 with hepatomegaly.
ClaimedStartCvp ==
    IF patient.baseline_hepatomegaly THEN Max(params.target_cvp_mmhg, Num(10))
    ELSE params.target_cvp_mmhg

\* C15 as claimed: the T=0 state has the CVP the SVR solver assumed
\* (params.target_cvp_mmhg, at least 10 with hepatomegaly) and the blood
\* volume v_blood_normal + (that CVP - 3) * venous_compliance, floored at
\* 0.35 * v_blood_normal.
C15_InitializerUsesTargetCvp ==
    AtT0 =>
        /\ state.cvp_mmHg = ClaimedStartCvp
        /\ state.v_blood_current_l =
               Max(params.v_blood_normal_l
                       + Mul(ClaimedStartCvp - Num(3), params.venous_compliance_ml_mmhg),
                   Mul(params.v_blood_normal_l, Frac(35, 100)))

\* A step whose integrated blood volume fell below the floor, or whose venous
\* pressure fell below its lower limit, and was set onto it.
ClampEngaged(c) ==
    \/ /\ c.pre.v_blood_current_l > Mul(params.v_blood_normal_l, Frac(4, 10))
       /\ c.out.v_blood_current_l = Mul(params.v_blood_normal_l, Frac(4, 10))
    \/ /\ c.pre.cvp_mmHg > Num(1)
       /\ c.out.cvp_mmHg = Num(1)

\* The returned state carries a soft_nan flag, and it is set.
SoftNanSet(s) == "soft_nan" \in DOMAIN s /\ s.soft_nan = TRUE

\* C16 as claimed: a step that had to clamp a field to keep a state invariant
\* returns a state with the soft_nan flag set, and a run in which that
\* happened is aborted.
C16_InvariantFailureFlagged ==
    /\ \A c \in StepCallSet : ClampEngaged(c) => SoftNanSet(c.out)
    /\ (RunReturned /\ RunEntered /\ \E c \in StepCallSet : ClampEngaged(c)) =>
           last.out.ret.success = FALSE

\* C17 as claimed: for a patient with time_since_last_urine_hours = 12 every
\* state the simulator produces, whatever the fluid and the rate, has
\* q_urine_ml_min < 0.05.
C17_AnuriaSuppressesUrine ==
    patient.time_since_last_urine_hours = Num(12) =>
        /\ state.q_urine_ml_min < Frac(5, 100)
        /\ \A c \in StepCallSet : c.out.q_urine_ml_min < Frac(5, 100)

\* A completed run of the given bolus from the T=0 state of the twin.
BolusFromT0(fluid, volume_ml, duration_min) ==
    /\ RunReturned
    /\ RunEntered
    /\ last.pre.time_minutes = 0
    /\ last.fluid = fluid
    /\ last.volume_ml = volume_ml
    /\ last.duration_min = duration_min

\* C18 as claimed: the septic 2-year-old of 10 kg with sodium 125 given
\* 200 ml HALF_NS over 60 minutes ends the run with an intracellular volume
\* at least 5 ml above its T=0 value.
C18_HypotonicSwellsCells ==
    (patient = Hyponatremic /\ BolusFromT0("HALF_NS", 200, 60)) =>
        last.out.ret.final_state.v_intracellular_current_l
            - last.pre.v_intracellular_current_l >= Num(5)

LeakOfTwin(physics_params, input, fluid, volume_ml, duration_min) ==
    run_simulation(initialize_simulation_state(input, physics_params), physics_params, fluid, volume_ml, duration_min, FALSE).ret.fluid_leaked_percentage

\* The leak fraction reported for the same bolus given from T=0 to the
\* patient that differs from input only in its diagnosis.
ControlLeak(input, fluid, volume_ml, duration_min) ==
    LeakOfTwin(initialize_physics_engine([input EXCEPT !.diagnosis = "SEVERE_DEHYDRATION"]), [input EXCEPT !.diagnosis = "SEVERE_DEHYDRATION"], fluid, volume_ml, duration_min)

\* C19 as claimed: the 24-month, 10-kg dengue patient on illness day 5 given
\* 200 ml RL over 60 minutes has a reported leak fraction at least twice that
\* of the otherwise identical severe-dehydration patient.
C19_DengueLeaksMore ==
    (/\ patient # NoneObject
     /\ patient.diagnosis = "DENGUE_SHOCK"
     /\ patient.illness_day = 5
     /\ patient.age_months = 24
     /\ patient.weight_kg = Num(10)
     /\ BolusFromT0("RL", 200, 60)) =>
        last.out.ret.fluid_leaked_percentage >= 2 * ControlLeak(patient, "RL", 200, 60)

\* The states of the last run in order: the state it was given, then the
\* state after each step.
RunStates == <<last.pre>> \o last.out.posts

\* A run at a positive rate whose first state has a preload ratio below 0.8.
FillsEmptyHeart ==
    /\ RunReturned
    /\ RunEntered
    /\ last.volume_ml > 0
    /\ PreloadRatio(last.pre, params) < Frac(8, 10)

\* The preload ratio has not exceeded 1.2 in any of the first n states.
NotYetFull(n) ==
    \A j \in 1..n : PreloadRatio(RunStates[j], params) <= Frac(12, 10)

\* C20 as claimed: in a run with positive infusion whose first state has a
\* preload ratio below 0.8, the MAP of each state is at least that of the
\* state before it for as long as the preload ratio has not exceeded 1.2.
C20_MapRisesWhileFilling ==
    FillsEmptyHeart =>
        \A i \in 2..Len(RunStates) :
            NotYetFull(i) => RunStates[i].map_mmHg >= RunStates[i - 1].map_mmHg

AlertsChecked == last.op = "check_real_time"

\* C21 as claimed: check_real_time sets hydrocortisone_needed whenever the
\* lactate of the state it evaluates exceeds 7 mmol/L, whether or not a
\* lactate was measured at intake.
C21_HydrocortisoneFollowsLactate ==
    (AlertsChecked /\ last.pre.current_lactate_mmol_l > Num(7)) =>
        last.out.hydrocortisone_needed

LookedUp == last.op = "FLUID_LIBRARY.get"

\* The table the last lookup was made in.
TableOfLookup == IF last.build = "app" THEN APP_SPECS ELSE SPECS

TableEntries(table) == {table[f] : f \in DOMAIN table}

\* C22: FLUID_LIBRARY.get returns properties for every tag: the entry of the
\* tag when the table has one, and the properties of RL when it has none.
C22_FluidLookupTotal ==
    LookedUp =>
        /\ last.out \in TableEntries(TableOfLookup)
        /\ last.fluid_enum \in DOMAIN TableOfLookup => last.out = TableOfLookup[last.fluid_enum]
        /\ last.fluid_enum \notin DOMAIN TableOfLookup => last.out = TableOfLookup["RL"]

\* A tag that the backend table has and app.py's table has not was looked up
\* in app.py's table.
C22_Witness ==
    /\ LookedUp
    /\ last.build = "app"
    /\ last.fluid_enum \in DOMAIN SPECS
    /\ last.fluid_enum \notin DOMAIN APP_SPECS
    /\ last.out = APP_SPECS["RL"]

\* The intake shows hypoxia.
IntakeHypoxic(input) ==
    IF input.diagnosis = "SEPTIC_SHOCK" THEN input.sp_o2_percent < 85
    ELSE input.sp_o2_percent < 90

\* C23 as claimed: the T=0 state of a patient whose intake shows hypoxia has
\* p_interstitial >= 4, and a run asked for in that state is refused with
\* the pre-existing-congestion stop.
C23_HypoxiaBlocksBolus ==
    IntakeHypoxic(patient) =>
        /\ AtT0 => state.p_interstitial_mmHg >= Num(4)
        /\ (RunReturned /\ last.pre.time_minutes = 0) =>
               last.out.ret.triggers = <<STOP_CONGESTION>>

CurveEvaluated ==
    last.op \in {"initialize_physics_engine.preload_efficiency",
                 "_calculate_derivatives.preload_efficiency"}

\* C24 as claimed: for every preload ratio, contractility and SAM status the
\* calibrator's preload efficiency equals the one the simulator computes for
\* the same ratio.
C24_OneFrankStarlingCurve ==
    CurveEvaluated =>
        CalibratorPreloadEfficiency(last.preload_ratio)
            = PreloadEfficiency(last.preload_ratio, params)

\* C25 as claimed: after every simulate_single_step the bolus timer is 0 if
\* the step infused more than 0.1 ml, and the previous timer plus dt
\* otherwise, in every build that carries the step.
C25_BolusTimer ==
    StepCalled =>
        last.out.time_since_last_bolus_min
            = IF Mul(last.infusion_rate_ml_hr \div 60, last.dt_minutes) > Frac(1, 10)
              THEN 0
              ELSE last.pre.time_since_last_bolus_min + last.dt_minutes

\* C26 as claimed: every component treats a patient as SAM exactly when
\* MUAC < 11.5 cm: the hemodynamic calibration (contractility penalty and
\* reduced boost), params.is_sam read by the simulator, and the supervisor's
\* SAM classification; with MUAC >= 11.5 and a contractility of 0.6 or more
\* the supervisor raises no sam_heart_warning.
C26_OneSamPredicate ==
    LET sam == patient.muac_cm < Frac(115, 10)
    IN  /\ HemodynamicsIsSam(patient) <=> sam
        /\ params.is_sam <=> sam
        /\ IsSamClinical(patient) <=> sam
        /\ (AlertsChecked /\ ~sam /\ params.cardiac_contractility >= Frac(6, 10))
               => ~last.out.sam_heart_warning

RunSucceeded == RunReturned /\ last.out.ret.success

\* C27: whenever run_simulation returns success = true, every post-step state
\* of the run, the final state included, has p_interstitial <= 5 and
\* hematocrit >= 20 where a step was executed, and check_real_time on the
\* final state does not set risk_pulmonary_edema.
C27_SuccessfulRunEndsSafe ==
    RunSucceeded =>
        /\ \A i \in DOMAIN last.out.posts :
               /\ last.out.posts[i].p_interstitial_mmHg <= Num(5)
               /\ last.out.posts[i].current_hematocrit_dynamic >= Num(20)
        /\ last.out.posts # << >> =>
               /\ last.out.ret.final_state.p_interstitial_mmHg <= Num(5)
               /\ last.out.ret.final_state.current_hematocrit_dynamic >= Num(20)
        /\ ~check_real_time(last.out.ret.final_state, params, patient).risk_pulmonary_edema

\* C27 witness: a run that executed steps and reported success, whose lung
\* pressure rose above the entry value on the way.
C27_Witness ==
    /\ RunSucceeded
    /\ Len(last.out.posts) >= 2
    /\ last.out.ret.final_state.p_interstitial_mmHg > last.pre.p_interstitial_mmHg
    /\ ~check_real_time(last.out.ret.final_state, params, patient).risk_pulmonary_edema

AbortedForHemodilution ==
    /\ RunReturned
    /\ \E i \in DOMAIN last.out.ret.triggers : last.out.ret.triggers[i] = CRITICAL_HEMODILUTION

\* C28 as claimed: a run is aborted with the critical-hemodilution trigger
\* only when the aborting state's hematocrit is below the hematocrit the run
\* started with, and a run that infuses PRBC is never aborted for
\* hemodilution.
C28_HemodilutionAbortMeansDilution ==
    AbortedForHemodilution =>
        /\ last.out.ret.final_state.current_hematocrit_dynamic
               < last.pre.current_hematocrit_dynamic
        /\ last.fluid # "PRBC"

\* C29 as claimed: for every run with positive volume the
\* fluid_leaked_percentage that run_simulation returns lies between 0 and 100.
C29_LeakPercentageIsFraction ==
    (RunReturned /\ last.volume_ml > 0) =>
        /\ last.out.ret.fluid_leaked_percentage >= 0
        /\ last.out.ret.fluid_leaked_percentage <= 100

\* The volume a returned run has added to the infused total.
DeliveredMl ==
    last.out.ret.final_state.total_volume_infused_ml - last.pre.total_volume_infused_ml

\* The per-minute rate is cut to 1e-4 ml, so the minutes of a run add up to
\* the prescription less at most 1e-4 ml per minute.
DeliverySlack == last.duration_min

====
